---- MODULE Spec2Model ----
(***************************************************************************)
(* Model of the license SDK's client-side trust engine                     *)
(* (sdk/python/license_client.py): the LicenseClient validity state        *)
(* machine with its cache file and heartbeat thread, and the               *)
(* CacheEncryption byte-level encoding of the cache blob.                  *)
(*                                                                         *)
(* Spec      : the LicenseClient object driven by its caller, the wall     *)
(*             clock, the server's answers and the heartbeat thread.       *)
(* SpecCache : CacheEncryption.encrypt / decrypt and _load_cache on byte   *)
(*             strings, with one byte of the stored blob altered.          *)
(* SpecPin   : CertificatePinningAdapter on one request.                   *)
(* SpecSig   : LicenseClient._verify_response_signature on one payload.    *)
(* SpecSecure: the client behind SecureLicenseClient                       *)
(*             (sdk/python/license_security.py).                           *)
(***************************************************************************)
EXTENDS Integers, Sequences, FiniteSets, TLC

VARIABLES
    now,               \* time.time(), whole seconds
    license_info,      \* self._license_info: <<>> is None, <<r>> a record
    cache_file,        \* <cache_dir>/<app_key>.enc : <<>> absent, <<blob>>
    legacy_file,       \* <cache_dir>/<app_key>.json: <<>> absent, <<blob>>
    stop_heartbeat,    \* self._stop_heartbeat
    heartbeat_thread,  \* self._heartbeat_thread and its position in _heartbeat_loop
    public_key,        \* self._public_key is configured
    last,              \* the call that just returned: what it was given and gave back
    phase,             \* history: what happened last to the record (see Phase)
    secure,            \* the SecureLicenseClient wrapped around the client, if any
    c                  \* the experiment under way in SpecCache, SpecPin, SpecSig

smVars == <<now, license_info, cache_file, legacy_file, stop_heartbeat,
            heartbeat_thread, public_key, last, phase, secure>>
vars == <<now, license_info, cache_file, legacy_file, stop_heartbeat,
          heartbeat_thread, public_key, last, phase, secure, c>>

----------------------------------------------------------------------------
(* Bounds of the model and constants of the program *)

DaySeconds == 86400          \* is_valid: offline_days = (now - last) / 86400
offline_grace_days == 2      \* LicenseClient(offline_grace_days=2)
signature_time_window == 300 \* LicenseClient(signature_time_window=300)
MaxDays == 2                 \* the clock is read at midnight of days 0..MaxDays

Absent == 0 - 1               \* a key that is not in a dict

GraceSeconds == offline_grace_days * DaySeconds

\* The instants the wall clock is read at: the day boundaries, and the first
\* second after a record verified at 0 has left its grace period.
Times == { d * DaySeconds : d \in 0..MaxDays } \cup { GraceSeconds + 1 }

\* expire_at values a server sends (an ISO string; here its timestamp())
ExpireTimes == { DaySeconds }

\* An expire_at that is no ISO string: the instant n given as a number of
\* seconds, or in a text datetime.fromisoformat refuses. Kept apart from
\* the ISO strings (0 and up) and from Absent.
NotIso(n) == 0 - (n + 2)

\* isinstance(expire_at, str), and datetime.fromisoformat reads it
IsoString(e) == e >= 0

\* The instant an expire_at names
ExpiryInstant(e) == IF IsoString(e) THEN e ELSE 0 - (e + 2)

----------------------------------------------------------------------------
(* The server's answer to one request, as _request sees it *)

\* kind: "ok"      HTTP answer with code == 0
\*       "reject"  HTTP answer with code != 0
\*       "netfail" requests.exceptions.RequestException
\*       "pin"     CertificatePinningAdapter.send raised CertificatePinningError
\* data: the fragment result['data']; "absent"/Absent is a missing key.
\* signature: "good" verifies under the public key, "bad" does not, "none" is
\*       no signature field; timestamp: data['timestamp'] or Absent.
Fragment(v, e, l, s, ts) ==
    [ valid |-> v, expire_at |-> e, last_verified_at |-> l,
      signature |-> s, timestamp |-> ts ]

EmptyData == Fragment("absent", Absent, Absent, "none", Absent)

\* Correctly signed fragments with each value of valid, one with an expiry,
\* one with an expiry that is no ISO string, one that carries a
\* last_verified_at of its own, and the valid = true fragment unsigned,
\* wrongly signed, and signed at second 1.
DataFragments ==
    { Fragment(v, Absent, Absent, "good", Absent) : v \in {"absent", "true", "false"} }
    \cup { Fragment("true", e, Absent, "good", Absent) : e \in ExpireTimes }
    \cup { Fragment("true", NotIso(e), Absent, "good", Absent) : e \in ExpireTimes }
    \cup { Fragment("true", Absent, 0, "good", Absent),
           Fragment("true", Absent, Absent, "none", Absent),
           Fragment("true", Absent, Absent, "bad", Absent),
           Fragment("true", Absent, Absent, "good", 1) }

Responses ==
    [ kind : {"ok"}, data : DataFragments ]
    \cup [ kind : {"reject", "netfail", "pin"}, data : {EmptyData} ]

----------------------------------------------------------------------------
(* The client object: the fields the methods read and write *)

Self == [ license_info |-> license_info, cache_file |-> cache_file,
          legacy_file |-> legacy_file, stop_heartbeat |-> stop_heartbeat,
          heartbeat_thread |-> heartbeat_thread ]

\* What a method call gives back: the object after it, the value returned
\* ("true", "false", "data" for a dict, "none" when it raised), the exception
\* that left it ("none", "LicenseError", "CertificatePinningError") and the
\* number of server requests it issued.
Outcome(self, ret, raised, requests) ==
    [ self |-> self, ret |-> ret, raised |-> raised, requests |-> requests ]

Bool(b) == IF b THEN "true" ELSE "false"

\* dict.get('valid', False) used as a condition
Truthy(info) == info.valid = "true"

\* A cache blob: the text is json.dumps(record), stored encrypted (.enc) or
\* plain (.json); readable is FALSE for a blob that does not decrypt or parse.
Blob(info) == [ readable |-> TRUE, record |-> info ]

\* _save_cache that writes nothing
save_cache_Skips(self) == self

\* LicenseClient._save_cache
save_cache(self) ==
    IF self.license_info # <<>>
    THEN [self EXCEPT !.cache_file = << Blob(self.license_info[1]) >>]
    ELSE self

\* _clear_cache that forgets the legacy <app_key>.json
clear_cache_KeepsLegacy(self) ==
    [self EXCEPT !.cache_file = <<>>, !.license_info = <<>>]

\* LicenseClient._clear_cache
clear_cache(self) ==
    [self EXCEPT !.cache_file = <<>>, !.legacy_file = <<>>, !.license_info = <<>>]

\* Thread.is_alive() of self._heartbeat_thread
IsAlive(thread) == thread \in {"check", "sleep"}

\* LicenseClient._start_heartbeat
start_heartbeat(self) ==
    IF IsAlive(self.heartbeat_thread)
    THEN self
    ELSE [self EXCEPT !.stop_heartbeat = FALSE, !.heartbeat_thread = "check"]

\* _request that uses the answer in hand after a fingerprint mismatch
request_TrustsPinned(resp) ==
    CASE resp.kind = "ok"      -> "none"
      [] resp.kind = "reject"  -> "LicenseError"
      [] resp.kind = "netfail" -> "LicenseError"
      [] resp.kind = "pin"     -> "none"

\* LicenseClient._request: the exception it raises for an answer
request(resp) ==
    CASE resp.kind = "ok"      -> "none"
      [] resp.kind = "reject"  -> "LicenseError"
      [] resp.kind = "netfail" -> "LicenseError"
      [] resp.kind = "pin"     -> "CertificatePinningError"

\* A record built without stamping last_verified_at (read back as 0)
FreshRecord_NoStamp(data, t) ==
    [ valid |-> data.valid, expire_at |-> data.expire_at, last_verified_at |-> 0 ]

\* {**result, "license_key": ..., "activated_at": now, "last_verified_at": now}
FreshRecord(data, t) ==
    [ valid |-> data.valid, expire_at |-> data.expire_at, last_verified_at |-> t ]

\* dict.update(result): the keys the fragment holds overwrite the record's
Update(info, data) ==
    [ valid |-> IF data.valid = "absent" THEN info.valid ELSE data.valid,
      expire_at |-> IF data.expire_at = Absent THEN info.expire_at ELSE data.expire_at,
      last_verified_at |-> IF data.last_verified_at = Absent
                           THEN info.last_verified_at ELSE data.last_verified_at ]

\* activate() that drops the record it had when the request fails
activate_DropsOnFailure(self, t, resp) ==
    IF request(resp) # "none"
    THEN Outcome(clear_cache(self), "none", request(resp), 1)
    ELSE Outcome(
           start_heartbeat(save_cache(
             [self EXCEPT !.license_info = << FreshRecord(resp.data, t) >>])),
           "data", "none", 1)

\* LicenseClient.activate
activate(self, t, resp) ==
    IF request(resp) # "none"
    THEN Outcome(self, "none", request(resp), 1)
    ELSE Outcome(
           start_heartbeat(save_cache(
             [self EXCEPT !.license_info = << FreshRecord(resp.data, t) >>])),
           "data", "none", 1)

\* LicenseClient.login
login(self, t, resp) ==
    IF request(resp) # "none"
    THEN Outcome(self, "none", request(resp), 1)
    ELSE Outcome(
           start_heartbeat(save_cache(
             [self EXCEPT !.license_info = << FreshRecord(resp.data, t) >>])),
           "data", "none", 1)

\* verify() that marks the record invalid when the request fails
verify_Invalidates(self, t, resp) ==
    CASE request(resp) = "LicenseError" ->
            Outcome(IF self.license_info # <<>>
                    THEN save_cache([self EXCEPT !.license_info =
                           << [self.license_info[1] EXCEPT !.valid = "false"] >>])
                    ELSE self,
                    "false", "none", 1)
      [] request(resp) = "CertificatePinningError" ->
            Outcome(self, "none", "CertificatePinningError", 1)
      [] OTHER ->
            Outcome(
              IF self.license_info # <<>>
              THEN save_cache([self EXCEPT !.license_info =
                     << Update([self.license_info[1] EXCEPT !.last_verified_at = t],
                               resp.data) >>])
              ELSE self,
              Bool(resp.data.valid = "true"), "none", 1)

\* verify() that makes a record of the answer when there is none
verify_Adopts(self, t, resp) ==
    CASE request(resp) = "LicenseError" -> Outcome(self, "false", "none", 1)
      [] request(resp) = "CertificatePinningError" ->
            Outcome(self, "none", "CertificatePinningError", 1)
      [] OTHER ->
            Outcome(
              save_cache([self EXCEPT !.license_info =
                     IF self.license_info # <<>>
                     THEN << Update([self.license_info[1] EXCEPT !.last_verified_at = t],
                                    resp.data) >>
                     ELSE << FreshRecord(resp.data, t) >>]),
              Bool(resp.data.valid = "true"), "none", 1)

\* LicenseClient.verify
verify(self, t, resp) ==
    CASE request(resp) = "LicenseError" -> Outcome(self, "false", "none", 1)
      [] request(resp) = "CertificatePinningError" ->
            Outcome(self, "none", "CertificatePinningError", 1)
      [] OTHER ->
            Outcome(
              IF self.license_info # <<>>
              THEN save_cache([self EXCEPT !.license_info =
                     << Update([self.license_info[1] EXCEPT !.last_verified_at = t],
                               resp.data) >>])
              ELSE self,
              Bool(resp.data.valid = "true"), "none", 1)

\* LicenseClient.heartbeat
heartbeat(self, t, resp) ==
    CASE request(resp) = "LicenseError" -> Outcome(self, "false", "none", 1)
      [] request(resp) = "CertificatePinningError" ->
            Outcome(self, "none", "CertificatePinningError", 1)
      [] OTHER ->
            Outcome(
              IF self.license_info # <<>>
              THEN save_cache([self EXCEPT !.license_info =
                     << [self.license_info[1] EXCEPT !.last_verified_at = t] >>])
              ELSE self,
              Bool(resp.data.valid = "true"), "none", 1)

\* deactivate() that stops the heartbeat although the request failed
deactivate_StopsAnyway(self, t, resp) ==
    CASE request(resp) = "LicenseError" ->
            Outcome([self EXCEPT !.stop_heartbeat = TRUE], "false", "none", 1)
      [] request(resp) = "CertificatePinningError" ->
            Outcome(self, "none", "CertificatePinningError", 1)
      [] OTHER ->
            Outcome([clear_cache(self) EXCEPT !.stop_heartbeat = TRUE],
                    "true", "none", 1)

\* LicenseClient.deactivate
deactivate(self, t, resp) ==
    CASE request(resp) = "LicenseError" -> Outcome(self, "false", "none", 1)
      [] request(resp) = "CertificatePinningError" ->
            Outcome(self, "none", "CertificatePinningError", 1)
      [] OTHER ->
            Outcome([clear_cache(self) EXCEPT !.stop_heartbeat = TRUE],
                    "true", "none", 1)

\* is_valid, lines 779-788: expire_at is set, is a str that fromisoformat
\* reads, and its timestamp() < time.time(); "except: pass" for the rest
Expired(info, t) ==
    /\ info.expire_at # Absent
    /\ IsoString(info.expire_at)
    /\ info.expire_at < t

\* The grace comparison with >= for >
OverGrace_Inclusive(info, t) ==
    (t - info.last_verified_at) >= offline_grace_days * DaySeconds

\* is_valid, lines 790-792: offline_days > self.offline_grace_days, with
\* offline_days = (time.time() - last_verified) / 86400 a true division
OverGrace(info, t) ==
    (t - info.last_verified_at) > offline_grace_days * DaySeconds

\* is_valid() that answers false beyond grace without asking the server
is_valid_NoReverify(self, t, resp) ==
    CASE self.license_info = <<>> -> Outcome(self, "false", "none", 0)
      [] self.license_info # <<>> /\ ~Truthy(self.license_info[1]) ->
            Outcome(self, "false", "none", 0)
      [] self.license_info # <<>> /\ Truthy(self.license_info[1])
         /\ Expired(self.license_info[1], t) -> Outcome(self, "false", "none", 0)
      [] OTHER ->
            IF OverGrace(self.license_info[1], t)
            THEN Outcome(self, "false", "none", 0)
            ELSE Outcome(self, "true", "none", 0)

\* is_valid() that asks the server about a record flagged invalid
is_valid_ReverifiesInvalid(self, t, resp) ==
    CASE self.license_info = <<>> -> Outcome(self, "false", "none", 0)
      [] self.license_info # <<>> /\ ~Truthy(self.license_info[1]) ->
            verify(self, t, resp)
      [] self.license_info # <<>> /\ Truthy(self.license_info[1])
         /\ Expired(self.license_info[1], t) -> Outcome(self, "false", "none", 0)
      [] OTHER ->
            IF OverGrace(self.license_info[1], t)
            THEN verify(self, t, resp)
            ELSE Outcome(self, "true", "none", 0)

\* is_valid() that looks at the grace period before the expiry
is_valid_GraceFirst(self, t, resp) ==
    CASE self.license_info = <<>> -> Outcome(self, "false", "none", 0)
      [] self.license_info # <<>> /\ ~Truthy(self.license_info[1]) ->
            Outcome(self, "false", "none", 0)
      [] self.license_info # <<>> /\ Truthy(self.license_info[1])
         /\ OverGrace(self.license_info[1], t) -> verify(self, t, resp)
      [] OTHER ->
            IF Expired(self.license_info[1], t)
            THEN Outcome(self, "false", "none", 0)
            ELSE Outcome(self, "true", "none", 0)

\* LicenseClient.is_valid
is_valid(self, t, resp) ==
    CASE self.license_info = <<>> -> Outcome(self, "false", "none", 0)
      [] self.license_info # <<>> /\ ~Truthy(self.license_info[1]) ->
            Outcome(self, "false", "none", 0)
      [] self.license_info # <<>> /\ Truthy(self.license_info[1])
         /\ Expired(self.license_info[1], t) -> Outcome(self, "false", "none", 0)
      [] OTHER ->
            IF OverGrace(self.license_info[1], t)
            THEN verify(self, t, resp)
            ELSE Outcome(self, "true", "none", 0)

\* LicenseClient.close
close(self) == [self EXCEPT !.stop_heartbeat = TRUE]

\* The replay check with >= for >
replay_expired_Inclusive(window, data, t) ==
    /\ window > 0
    /\ data.timestamp # Absent
    /\ data.timestamp # 0
    /\ ( IF t >= data.timestamp THEN t - data.timestamp ELSE data.timestamp - t )
         >= window

\* _verify_response_signature, lines 870-876: the payload is refused as
\* expired. window: self.signature_time_window; t: int(time.time())
replay_expired(window, data, t) ==
    /\ window > 0
    /\ data.timestamp # Absent
    /\ data.timestamp # 0    \* "if timestamp:" is false for 0 too
    /\ ( IF t >= data.timestamp THEN t - data.timestamp ELSE data.timestamp - t )
         > window

\* _verify_response_signature that lets an unsigned payload through
verify_response_signature_Lenient(key, require, window, data, t) ==
    CASE ~key /\ require -> "LicenseError"
      [] ~key /\ ~require -> "accept"
      [] key /\ data.signature = "none" -> "accept"
      [] OTHER ->
           IF replay_expired(window, data, t)
           THEN "SignatureExpiredError"
           ELSE IF data.signature = "good" THEN "accept"
                ELSE "SignatureVerificationError"

\* LicenseClient._verify_response_signature: "accept" when it returns, else
\* the exception it raises. key: self._public_key is set; require:
\* self.require_signature; data: the payload with its signature; t: time.time()
verify_response_signature(key, require, window, data, t) ==
    CASE ~key /\ require -> "LicenseError"
      [] ~key /\ ~require -> "accept"
      [] key /\ data.signature = "none" /\ require -> "SignatureMissingError"
      [] key /\ data.signature = "none" /\ ~require -> "accept"
      [] OTHER ->
           IF replay_expired(window, data, t)
           THEN "SignatureExpiredError"
           ELSE IF data.signature = "good" THEN "accept"
                ELSE "SignatureVerificationError"

\* LicenseClient.__init__, line 390, with the require_signature argument left
\* at its default False
require_signature == public_key

\* LicenseClient._load_cache, run by __init__ with encrypt_cache = True
load_cache(self) ==
    IF self.cache_file # <<>>
    THEN [self EXCEPT !.license_info =
            IF self.cache_file[1].readable
            THEN << self.cache_file[1].record >> ELSE <<>>]
    ELSE IF self.legacy_file # <<>>
         THEN IF self.legacy_file[1].readable
              THEN [save_cache([self EXCEPT !.license_info =
                                  << self.legacy_file[1].record >>])
                      EXCEPT !.legacy_file = <<>>]
              ELSE [self EXCEPT !.license_info = <<>>]
         ELSE self

----------------------------------------------------------------------------
(* The state machine *)

\* Records found on disk when the client is constructed
StoredRecords ==
    { [ valid |-> "true", expire_at |-> Absent, last_verified_at |-> 0 ] }

StoredBlobs ==
    { Blob(r) : r \in StoredRecords }
    \cup { [ readable |-> FALSE, record |-> r ] : r \in StoredRecords }

\* No SecureLicenseClient has been constructed
NoWrapper == <<>>

NoCall == [ op |-> "init", ret |-> "none", raised |-> "none", requests |-> 0,
            kind |-> "none", valid |-> "absent", verdict |-> "none" ]

\* What `last` keeps of a call: its name, its outcome, and of the answer it
\* was given (when it asked the server) the kind, the valid field and the
\* verdict _verify_response_signature gives on it.
Called(op, out, resp, t) ==
    [ op |-> op, ret |-> out.ret, raised |-> out.raised, requests |-> out.requests,
      kind |-> IF out.requests = 0 THEN "none" ELSE resp.kind,
      valid |-> IF out.requests = 0 THEN "absent" ELSE resp.data.valid,
      verdict |-> IF out.requests = 0 \/ resp.kind # "ok" THEN "none"
                  ELSE verify_response_signature(public_key, require_signature,
                                                 signature_time_window,
                                                 resp.data, t) ]

\* History of the record, for the properties that speak of "after":
\*   "fresh"   an accepted activate/login wrote it and no request was made since
\*   "vfailed" a verify() failed (rejected or unreachable) and no activate,
\*             login, verify or heartbeat succeeded since
\*   "none"    otherwise
Phase(op, out, resp) ==
    CASE out.requests = 0 -> phase
      [] out.requests = 1 /\ op \in {"activate", "login"} /\ resp.kind = "ok" -> "fresh"
      [] out.requests = 1 /\ op \in {"verify", "is_valid"}
           /\ resp.kind \in {"reject", "netfail"} -> "vfailed"
      [] out.requests = 1 /\ op \in {"verify", "is_valid", "heartbeat", "thread"}
           /\ resp.kind = "ok" -> "none"
      [] OTHER -> IF phase = "fresh" THEN "none" ELSE phase

Init ==
    /\ now \in Times
    /\ public_key = TRUE
    /\ \E cf \in {<<>>} \cup { <<b>> : b \in StoredBlobs },
          lf \in {<<>>} \cup { << Blob(r) >> : r \in StoredRecords } :
         LET self == load_cache([ license_info |-> <<>>, cache_file |-> cf,
                                  legacy_file |-> lf, stop_heartbeat |-> FALSE,
                                  heartbeat_thread |-> "none" ])
         IN /\ license_info = self.license_info
            /\ cache_file = self.cache_file
            /\ legacy_file = self.legacy_file
            /\ stop_heartbeat = self.stop_heartbeat
            /\ heartbeat_thread = self.heartbeat_thread
    /\ last = NoCall
    /\ phase = "none"
    /\ secure = NoWrapper
    /\ c = <<>>

\* The caller's thread returns from `op` with outcome `out`
Returns(op, out, resp) ==
    /\ license_info' = out.self.license_info
    /\ cache_file' = out.self.cache_file
    /\ legacy_file' = out.self.legacy_file
    /\ stop_heartbeat' = out.self.stop_heartbeat
    /\ heartbeat_thread' = out.self.heartbeat_thread
    /\ last' = Called(op, out, resp, now)
    /\ phase' = Phase(op, out, resp)
    /\ UNCHANGED <<now, public_key, secure, c>>

Activate == \E resp \in Responses : Returns("activate", activate(Self, now, resp), resp)

Login == \E resp \in Responses : Returns("login", login(Self, now, resp), resp)

Verify == \E resp \in Responses : Returns("verify", verify(Self, now, resp), resp)

Heartbeat == \E resp \in Responses : Returns("heartbeat", heartbeat(Self, now, resp), resp)

Deactivate == \E resp \in Responses : Returns("deactivate", deactivate(Self, now, resp), resp)

IsValid == \E resp \in Responses : Returns("is_valid", is_valid(Self, now, resp), resp)

Close ==
    Returns("close", Outcome(close(Self), "none", "none", 0), [kind |-> "none", data |-> EmptyData])

\* The wall clock moves, forward or back
Tick ==
    /\ \E t \in Times \ {now} : now' = t
    /\ last' = [NoCall EXCEPT !.op = "tick"]
    /\ UNCHANGED <<license_info, cache_file, legacy_file, stop_heartbeat,
                   heartbeat_thread, public_key, phase, secure, c>>

\* _heartbeat_loop at "while not self._stop_heartbeat": leave or go to sleep
HeartbeatLoopTest ==
    /\ heartbeat_thread = "check"
    /\ heartbeat_thread' = IF stop_heartbeat THEN "dead" ELSE "sleep"
    /\ last' = [NoCall EXCEPT !.op = "thread"]
    /\ UNCHANGED <<now, license_info, cache_file, legacy_file, stop_heartbeat,
                   public_key, phase, secure, c>>

\* _heartbeat_loop after time.sleep: "if not self._stop_heartbeat:
\* self.heartbeat()"; an exception leaving heartbeat() ends the thread
ThreadWakes(answers) ==
    /\ heartbeat_thread = "sleep"
    /\ \E resp \in answers :
         LET out == IF stop_heartbeat
                    THEN Outcome(Self, "none", "none", 0)
                    ELSE heartbeat(Self, now, resp)
             after == [out EXCEPT !.self.heartbeat_thread =
                         IF out.raised = "none" THEN "check" ELSE "dead"]
         IN Returns("thread", after, resp)

HeartbeatLoopWake == ThreadWakes(Responses)

Next ==
    \/ Activate
    \/ Login
    \/ Verify
    \/ Heartbeat
    \/ Deactivate
    \/ IsValid
    \/ Close
    \/ Tick
    \/ HeartbeatLoopTest
    \/ HeartbeatLoopWake

Spec == Init /\ [][Next]_vars

----------------------------------------------------------------------------
(* Bytes, UTF-8 and base64, as CacheEncryption and _load_cache use them *)

Bit(a, k) == (a \div (2 ^ k)) % 2

\* char ^ key[i % len(key)] on two bytes
Xor8(a, b) ==
    LET x(k) == ((Bit(a, k) + Bit(b, k)) % 2) * (2 ^ k)
    IN x(0) + x(1) + x(2) + x(3) + x(4) + x(5) + x(6) + x(7)

\* A result that is a value or an exception
Ok(v) == [ ok |-> TRUE, value |-> v ]
Raise == [ ok |-> FALSE, value |-> <<>> ]

\* str.encode(): UTF-8 of a text of code points below 2048
RECURSIVE Utf8Encode(_)
Utf8Encode(text) ==
    IF text = <<>> THEN <<>>
    ELSE ( IF Head(text) < 128
           THEN << Head(text) >>
           ELSE << 192 + (Head(text) \div 64), 128 + (Head(text) % 64) >> )
         \o Utf8Encode(Tail(text))

\* bytes.decode(): raises UnicodeDecodeError unless every byte is ASCII or a
\* two-byte sequence (C2..DF, 80..BF). Longer sequences, which decode to
\* characters outside every text written here, are taken as errors too.
RECURSIVE Utf8Decode(_)
Utf8Decode(bytes) ==
    IF bytes = <<>> THEN Ok(<<>>)
    ELSE IF Head(bytes) < 128
         THEN LET rest == Utf8Decode(Tail(bytes))
              IN IF rest.ok THEN Ok(<< Head(bytes) >> \o rest.value) ELSE Raise
         ELSE IF /\ Head(bytes) >= 194 /\ Head(bytes) <= 223
                 /\ Len(bytes) >= 2
                 /\ bytes[2] >= 128 /\ bytes[2] <= 191
              THEN LET rest == Utf8Decode(Tail(Tail(bytes)))
                   IN IF rest.ok
                      THEN Ok(<< (Head(bytes) - 192) * 64 + (bytes[2] - 128) >>
                              \o rest.value)
                      ELSE Raise
              ELSE Raise

Pad == 61   \* "="

\* The ASCII code of sextet i in the standard alphabet (A-Z a-z 0-9 + /)
B64Char(i) ==
    CASE i < 26 -> 65 + i
      [] i >= 26 /\ i < 52 -> 97 + (i - 26)
      [] i >= 52 /\ i < 62 -> 48 + (i - 52)
      [] i = 62 -> 43
      [] OTHER -> 47

\* binascii's table_a2b_base64: the sextet of an ASCII code, 64 for none
B64Index(ch) ==
    CASE ch >= 65 /\ ch <= 90 -> ch - 65
      [] ch >= 97 /\ ch <= 122 -> ch - 97 + 26
      [] ch >= 48 /\ ch <= 57 -> ch - 48 + 52
      [] ch = 43 -> 62
      [] ch = 47 -> 63
      [] OTHER -> 64

\* base64.b64encode
RECURSIVE b64encode(_)
b64encode(bytes) ==
    CASE Len(bytes) = 0 -> <<>>
      [] Len(bytes) = 1 ->
           << B64Char(bytes[1] \div 4), B64Char((bytes[1] % 4) * 16), Pad, Pad >>
      [] Len(bytes) = 2 ->
           << B64Char(bytes[1] \div 4),
              B64Char((bytes[1] % 4) * 16 + bytes[2] \div 16),
              B64Char((bytes[2] % 16) * 4), Pad >>
      [] OTHER ->
           << B64Char(bytes[1] \div 4),
              B64Char((bytes[1] % 4) * 16 + bytes[2] \div 16),
              B64Char((bytes[2] % 16) * 4 + bytes[3] \div 64),
              B64Char(bytes[3] % 64) >>
           \o b64encode(SubSeq(bytes, 4, Len(bytes)))

\* binascii.a2b_base64 without strict mode, which base64.b64decode calls:
\* characters outside the alphabet are skipped, a pad that completes a quad
\* ends the decoding, and data left in an open quad is "Incorrect padding".
RECURSIVE a2b_base64(_, _, _, _, _, _)
a2b_base64(s, i, quad, pads, left, out) ==
    IF i > Len(s)
    THEN IF quad = 0 THEN Ok(out) ELSE Raise
    ELSE IF s[i] = Pad
         THEN IF quad >= 2 /\ quad + pads + 1 >= 4
              THEN Ok(out)
              ELSE a2b_base64(s, i + 1, quad,
                              IF quad >= 2 THEN pads + 1 ELSE pads, left, out)
         ELSE IF B64Index(s[i]) >= 64
              THEN a2b_base64(s, i + 1, quad, pads, left, out)
              ELSE LET v == B64Index(s[i])
                   IN CASE quad = 0 -> a2b_base64(s, i + 1, 1, 0, v, out)
                        [] quad = 1 ->
                             a2b_base64(s, i + 1, 2, 0, v % 16,
                                        Append(out, left * 4 + v \div 16))
                        [] quad = 2 ->
                             a2b_base64(s, i + 1, 3, 0, v % 4,
                                        Append(out, left * 16 + v \div 4))
                        [] OTHER ->
                             a2b_base64(s, i + 1, 0, 0, 0,
                                        Append(out, left * 64 + v))

\* base64.b64decode(s)
b64decode(s) == a2b_base64(s, 1, 0, 0, 0, <<>>)

\* base64.urlsafe_b64encode: "+" and "/" written as "-" and "_"
urlsafe_b64encode(bytes) ==
    LET std == b64encode(bytes)
    IN [ i \in 1..Len(std) |->
           IF std[i] = 43 THEN 45 ELSE IF std[i] = 47 THEN 95 ELSE std[i] ]

\* base64.urlsafe_b64decode: "-" and "_" read as "+" and "/", then b64decode
urlsafe_b64decode(s) ==
    b64decode([ i \in 1..Len(s) |->
                  IF s[i] = 45 THEN 43 ELSE IF s[i] = 95 THEN 47 ELSE s[i] ])

----------------------------------------------------------------------------
(* CacheEncryption *)

DigestLen == 32     \* len(hashlib.sha256(...).digest())

\* Stand-in for the hash functions: byte i of a 32-byte pseudo-random string
\* fixed by the seed. machine_id and app_key are small numbers here.
Prf(seed, i) == (seed * 37 + i * 101 + seed * i * 13 + 59) % 256

\* hashlib.sha256((machine_id + app_key).encode()).digest()
ObfuscationKey(machine_id, app_key) ==
    [ i \in 1..DigestLen |-> Prf(machine_id * 16 + app_key, i) ]

\* _init_fernet: the 32-byte key PBKDF2 derives from machine_id, salted with
\* sha256(app_key)[:16]; Fernet signs with its first half and encrypts with
\* its second.
FernetKey(machine_id, app_key) ==
    [ i \in 1..DigestLen |-> Prf(1000 + machine_id * 16 + app_key * 7, i) ]

\* bytes[i] ^ key[i % len(key)] for every i (i counts from 0 in the source)
XorStream(bytes, key) ==
    [ i \in 1..Len(bytes) |-> Xor8(bytes[i], key[((i - 1) % Len(key)) + 1]) ]

\* CacheEncryption._simple_obfuscate
simple_obfuscate(machine_id, app_key, data) ==
    b64encode(XorStream(Utf8Encode(data), ObfuscationKey(machine_id, app_key)))

\* _simple_deobfuscate with the key of (app_key + machine_id)
simple_deobfuscate_SwappedKey(machine_id, app_key, data) ==
    LET decoded == b64decode(Utf8Encode(data))
    IN IF decoded.ok
       THEN Utf8Decode(XorStream(decoded.value, ObfuscationKey(app_key, machine_id)))
       ELSE Raise

\* CacheEncryption._simple_deobfuscate: raises when the base64 or the UTF-8
\* decoding does
simple_deobfuscate(machine_id, app_key, data) ==
    LET decoded == b64decode(Utf8Encode(data))
    IN IF decoded.ok
       THEN Utf8Decode(XorStream(decoded.value, ObfuscationKey(machine_id, app_key)))
       ELSE Raise

\* Stand-in for Fernet's HMAC-SHA256: a tag under the signing half of the key
\* that is as long as the message and determines it.
FernetTag(key, msg) ==
    [ i \in 1..Len(msg) |-> Xor8(msg[i], key[((i - 1) % (DigestLen \div 2)) + 1]) ]

\* Stand-in for Fernet's AES-CBC: a stream under the encrypting half of the key
FernetCipher(key, bytes) ==
    [ i \in 1..Len(bytes) |->
        Xor8(bytes[i], key[DigestLen \div 2 + ((i - 1) % (DigestLen \div 2)) + 1]) ]

\* Fernet.encrypt: urlsafe base64 of version byte 0x80, ciphertext and tag
\* (the timestamp and the random IV of a real token are left out)
fernet_encrypt(key, bytes) ==
    LET msg == << 128 >> \o FernetCipher(key, bytes)
    IN urlsafe_b64encode(msg \o FernetTag(key, msg))

\* Fernet.decrypt: InvalidToken unless the token decodes, starts with 0x80
\* and carries the tag of its message
fernet_decrypt(key, token) ==
    LET decoded == urlsafe_b64decode(token)
    IN IF ~decoded.ok \/ Len(decoded.value) < 2 \/ Len(decoded.value) % 2 # 0
       THEN Raise
       ELSE LET n == Len(decoded.value) \div 2
                msg == SubSeq(decoded.value, 1, n)
                tag == SubSeq(decoded.value, n + 1, 2 * n)
            IN IF msg[1] = 128 /\ tag = FernetTag(key, msg)
               THEN Ok(FernetCipher(key, Tail(msg)))
               ELSE Raise

\* CacheEncryption.encrypt; crypto: CRYPTO_AVAILABLE (then self._fernet is set)
encrypt(crypto, machine_id, app_key, data) ==
    IF ~crypto
    THEN simple_obfuscate(machine_id, app_key, data)
    ELSE b64encode(fernet_encrypt(FernetKey(machine_id, app_key), Utf8Encode(data)))

\* CacheEncryption.decrypt
decrypt(crypto, machine_id, app_key, encrypted_data) ==
    IF ~crypto
    THEN simple_deobfuscate(machine_id, app_key, encrypted_data)
    ELSE LET decoded == b64decode(Utf8Encode(encrypted_data))
             decrypted == IF decoded.ok
                          THEN fernet_decrypt(FernetKey(machine_id, app_key),
                                              decoded.value)
                          ELSE Raise
             text == IF decrypted.ok THEN Utf8Decode(decrypted.value) ELSE Raise
         IN IF text.ok
            THEN text
            ELSE simple_deobfuscate(machine_id, app_key, encrypted_data)

----------------------------------------------------------------------------
(* The cache file: json.dumps / json.loads of the record, and its bytes *)

\* The decimal digits of a natural number, as ASCII codes
RECURSIVE Digits(_)
Digits(n) ==
    IF n < 10 THEN << 48 + n >> ELSE Append(Digits(n \div 10), 48 + (n % 10))

JsonNumber(n) == IF n = Absent THEN << 110 >> ELSE Digits(n)

\* Stand-in for json.dumps(self._license_info): "{" valid "," expire_at ","
\* last_verified_at "}" with valid written t, f or n (no such key), a missing
\* expire_at written n, and the numbers in decimal.
Serialize(info) ==
    << 123 >>
    \o << CASE info.valid = "true" -> 116
            [] info.valid = "false" -> 102
            [] OTHER -> 110 >>
    \o << 44 >> \o JsonNumber(info.expire_at)
    \o << 44 >> \o JsonNumber(info.last_verified_at)
    \o << 125 >>

IsNumber(text) ==
    /\ text # <<>>
    /\ \A i \in 1..Len(text) : text[i] >= 48 /\ text[i] <= 57
    /\ (Len(text) > 1 => text[1] # 48)

RECURSIVE NumberValue(_)
NumberValue(text) ==
    IF text = <<>> THEN 0
    ELSE NumberValue(SubSeq(text, 1, Len(text) - 1)) * 10 + (text[Len(text)] - 48)

\* Stand-in for json.loads: the record of a text Serialize can have written,
\* an exception for every other text.
Parse(text) ==
    LET commas == { i \in 1..Len(text) : text[i] = 44 }
    IN IF \/ Len(text) < 7
          \/ text[1] # 123
          \/ text[Len(text)] # 125
          \/ Cardinality(commas) # 2
          \/ 3 \notin commas
          \/ text[2] \notin {116, 102, 110}
       THEN Raise
       ELSE LET second == CHOOSE i \in commas : i # 3
                expire == SubSeq(text, 4, second - 1)
                verified == SubSeq(text, second + 1, Len(text) - 1)
            IN IF (expire = << 110 >> \/ IsNumber(expire)) /\ IsNumber(verified)
               THEN Ok([ valid |-> CASE text[2] = 116 -> "true"
                                     [] text[2] = 102 -> "false"
                                     [] OTHER -> "absent",
                         expire_at |-> IF expire = << 110 >> THEN Absent
                                       ELSE NumberValue(expire),
                         last_verified_at |-> NumberValue(verified) ])
               ELSE Raise

\* _save_cache, lines 563-569: the bytes written for the record `info`
write_cache(encrypt_cache, crypto, machine_id, app_key, info) ==
    Utf8Encode(IF encrypt_cache
               THEN encrypt(crypto, machine_id, app_key, Serialize(info))
               ELSE Serialize(info))

\* _load_cache, lines 537-546: self._license_info after reading a file with
\* these bytes; every exception ends in "self._license_info = None"
read_cache(encrypt_cache, crypto, machine_id, app_key, bytes) ==
    LET content == Utf8Decode(bytes)
        plain == IF ~content.ok THEN Raise
                 ELSE IF encrypt_cache
                      THEN decrypt(crypto, machine_id, app_key, content.value)
                      ELSE content
        loaded == IF plain.ok THEN Parse(plain.value) ELSE Raise
    IN IF loaded.ok THEN << loaded.value >> ELSE <<>>

\* The file _load_cache opens: the one at cache_path if it exists (line
\* 536), else with encrypt_cache the legacy one (line 547)
opened_file(encrypt_cache, current, legacy) ==
    IF current # <<>> THEN current
    ELSE IF encrypt_cache THEN legacy ELSE <<>>

\* The migration that leaves the legacy file where it is
migrate_legacy_KeepsLegacy(crypto, machine_id, app_key, current, legacy, loaded) ==
    IF current = <<>> /\ loaded # <<>>
    THEN [ license_info |-> loaded,
           current |-> << write_cache(TRUE, crypto, machine_id, app_key,
                                      loaded[1]) >>,
           legacy |-> legacy ]
    ELSE [ license_info |-> loaded, current |-> current, legacy |-> legacy ]

\* _load_cache once the opened file is read into `loaded` (<<>> after an
\* exception): a record read from the legacy file is saved under cache_path
\* and the legacy file is removed (lines 553-555); else nothing is written
migrate_legacy(crypto, machine_id, app_key, current, legacy, loaded) ==
    IF current = <<>> /\ loaded # <<>>
    THEN [ license_info |-> loaded,
           current |-> << write_cache(TRUE, crypto, machine_id, app_key,
                                      loaded[1]) >>,
           legacy |-> <<>> ]
    ELSE [ license_info |-> loaded, current |-> current, legacy |-> legacy ]

\* _load_cache on the bytes of the files at cache_path (current) and at
\* old_cache_path, <app_key>.json (legacy), <<>> for a file that does not
\* exist: self._license_info and the two files afterwards. Without
\* encrypt_cache the two paths are one, and `current` is that file. The
\* current file is decrypted (line 542), the legacy one is read as it is
\* (line 551); every exception leaves None and the files as they are
load_cache_files(encrypt_cache, crypto, machine_id, app_key, current, legacy) ==
    migrate_legacy(crypto, machine_id, app_key, current, legacy,
        IF opened_file(encrypt_cache, current, legacy) = <<>> THEN <<>>
        ELSE read_cache(encrypt_cache /\ current # <<>>, crypto, machine_id, app_key,
                        opened_file(encrypt_cache, current, legacy)[1]))

----------------------------------------------------------------------------
(* SpecCache: CacheEncryption and the cache file on byte strings *)

MaxLen == 2             \* texts given to encrypt have up to MaxLen characters
MaxMachine == 2         \* machine ids 1..MaxMachine

\* "0", "{" and e-acute
TextAlphabet == { 48, 123, 233 }

Texts == UNION { [ 1..n -> TextAlphabet ] : n \in 0..MaxLen }

AppKeys == { 5 }

\* (encrypt_cache, CRYPTO_AVAILABLE): plain file, XOR obfuscation, Fernet
CacheModes == { <<FALSE, FALSE>>, <<TRUE, FALSE>>, <<TRUE, TRUE>> }

\* Records a client has saved
CacheRecords ==
    StoredRecords
    \cup { [ valid |-> "false", expire_at |-> 7, last_verified_at |-> 12 ] }

Experiment(mode, machine_id, app_key, data, record) ==
    [ step |-> "new", encrypt_cache |-> mode[1], crypto |-> mode[2],
      machine_id |-> machine_id, app_key |-> app_key,
      data |-> data, record |-> record,
      blob |-> <<>>, out |-> Raise, file |-> <<>>, altered |-> FALSE,
      loaded |-> <<>> ]

\* Bytes that are no JSON and no encrypted blob: "{"
Garbage == << 123 >>

\* The files a client with encrypt_cache = True finds at construction
Construction(crypto, machine_id, app_key, current, legacy) ==
    [ step |-> "found", encrypt_cache |-> TRUE, crypto |-> crypto,
      machine_id |-> machine_id, app_key |-> app_key,
      found_current |-> current, found_legacy |-> legacy,
      current |-> current, legacy |-> legacy, license_info |-> <<>> ]

\* What an earlier client has left in the directory: no file, a record
\* written by a client of that mode on that machine, or damaged bytes
FoundFiles(encrypt_cache, crypto, machine_id, app_key) ==
    { <<>>, << Garbage >> }
    \cup { << write_cache(encrypt_cache, crypto, machine_id, app_key, r) >> :
             r \in CacheRecords }

InitCache ==
    /\ now = 0
    /\ license_info = <<>>
    /\ cache_file = <<>>
    /\ legacy_file = <<>>
    /\ stop_heartbeat = FALSE
    /\ heartbeat_thread = "none"
    /\ public_key = FALSE
    /\ last = NoCall
    /\ phase = "none"
    /\ secure = NoWrapper
    /\ \E mode \in CacheModes, m \in 1..MaxMachine, a \in AppKeys :
         \/ \E data \in Texts : c = Experiment(mode, m, a, data, <<>>)
         \/ \E r \in CacheRecords : c = Experiment(mode, m, a, Serialize(r), << r >>)
         \/ /\ mode[1]
            /\ \E current \in FoundFiles(TRUE, mode[2], m, a),
                  legacy \in FoundFiles(FALSE, FALSE, m, a) :
                 c = Construction(mode[2], m, a, current, legacy)

\* blob = CacheEncryption(machine_id, app_key).encrypt(data)
CacheEncrypt ==
    /\ c.step = "new"
    /\ c.encrypt_cache
    /\ c' = [c EXCEPT !.step = "encrypted",
                      !.blob = encrypt(c.crypto, c.machine_id, c.app_key, c.data)]
    /\ UNCHANGED smVars

\* out = CacheEncryption(machine_id, app_key).decrypt(blob)
CacheDecrypt ==
    /\ c.step = "encrypted"
    /\ c' = [c EXCEPT !.step = "decrypted",
                      !.out = decrypt(c.crypto, c.machine_id, c.app_key, c.blob)]
    /\ UNCHANGED smVars

\* _save_cache with self._license_info = record
SaveCache ==
    /\ c.step = "new"
    /\ c.record # <<>>
    /\ c' = [c EXCEPT !.step = "saved",
                      !.file = write_cache(c.encrypt_cache, c.crypto, c.machine_id,
                                           c.app_key, c.record[1])]
    /\ UNCHANGED smVars

\* One byte of the cache file is altered
AlterByte ==
    /\ c.step = "saved"
    /\ \E i \in 1..Len(c.file), b \in 0..255 :
         /\ b # c.file[i]
         /\ c' = [c EXCEPT !.step = "altered", !.altered = TRUE, !.file[i] = b]
    /\ UNCHANGED smVars

\* The experiment after _load_cache has left the client and the files as r
CacheLoaded(x, r) ==
    IF x.step = "found"
    THEN [x EXCEPT !.step = "constructed", !.license_info = r.license_info,
                   !.current = r.current, !.legacy = r.legacy]
    ELSE [x EXCEPT !.step = "loaded", !.loaded = r.license_info]

\* A new client is constructed: __init__ runs _load_cache, on the file a
\* client has saved, or on the files found in the directory
LoadCache ==
    /\ c.step \in {"saved", "altered", "found"}
    /\ c' = CacheLoaded(c,
              load_cache_files(c.encrypt_cache, c.crypto, c.machine_id, c.app_key,
                               IF c.step = "found" THEN c.current ELSE << c.file >>,
                               IF c.step = "found" THEN c.legacy ELSE <<>>))
    /\ UNCHANGED smVars

NextCache ==
    \/ CacheEncrypt
    \/ CacheDecrypt
    \/ SaveCache
    \/ AlterByte
    \/ LoadCache

SpecCache == InitCache /\ [][NextCache]_vars

----------------------------------------------------------------------------
(* CertificatePinningAdapter *)

FpLen == 4      \* hex characters of a fingerprint (64 in a real SHA-256)

\* "1" and "a"
HexAlphabet == { 49, 97 }

\* hashlib.sha256(cert_der).hexdigest() of the certificates a server may
\* present: a certificate is named by its digest
Digests == [ 1..FpLen -> HexAlphabet ]

\* str.upper() and str.lower() on ASCII
Upper(text) ==
    [ i \in 1..Len(text) |->
        IF text[i] >= 97 /\ text[i] <= 122 THEN text[i] - 32 ELSE text[i] ]

Lower(text) ==
    [ i \in 1..Len(text) |->
        IF text[i] >= 65 /\ text[i] <= 90 THEN text[i] + 32 ELSE text[i] ]

\* "SHA256:"
Sha256Prefix == << 83, 72, 65, 50, 53, 54, 58 >>

\* str.startswith
StartsWith(text, prefix) ==
    Len(text) >= Len(prefix) /\ SubSeq(text, 1, Len(prefix)) = prefix

\* str.replace(":", "")
RECURSIVE StripColons(_)
StripColons(text) ==
    IF text = <<>> THEN <<>>
    ELSE IF Head(text) = 58 THEN StripColons(Tail(text))
         ELSE << Head(text) >> \o StripColons(Tail(text))

\* The fingerprint parsing without the final lower()
ParseFingerprint_NoLower(cert_fingerprint) ==
    LET fp == Upper(cert_fingerprint)
    IN StripColons(IF StartsWith(fp, Sha256Prefix)
                   THEN SubSeq(fp, Len(Sha256Prefix) + 1, Len(fp)) ELSE fp)

\* CertificatePinningAdapter.__init__, lines 130-133
ParseFingerprint(cert_fingerprint) ==
    LET fp == Upper(cert_fingerprint)
    IN Lower(StripColons(IF StartsWith(fp, Sha256Prefix)
                         THEN SubSeq(fp, Len(Sha256Prefix) + 1, Len(fp)) ELSE fp))

\* The ways an operator writes the digest d in the configuration
RECURSIVE WithColons(_)
WithColons(d) ==
    IF Len(d) <= 2 THEN d
    ELSE SubSeq(d, 1, 2) \o << 58 >> \o WithColons(SubSeq(d, 3, Len(d)))

FingerprintStyles == { "lower", "upper", "colons", "prefixed", "lowerprefix" }

Written(style, d) ==
    CASE style = "lower"       -> d
      [] style = "upper"       -> Upper(d)
      [] style = "colons"      -> WithColons(Upper(d))
      [] style = "prefixed"    -> Sha256Prefix \o WithColons(Upper(d))
      [] style = "lowerprefix" -> Lower(Sha256Prefix) \o WithColons(d)

\* _calculate_cert_fingerprint: with the cryptography package the SHA-256 of
\* the certificate in the file, without it the SHA-256 of the PEM text, which
\* is the digest of no certificate (written here as the digest reversed and
\* followed by "p")
calculate_cert_fingerprint(crypto, file_cert) ==
    IF crypto THEN file_cert
    ELSE [ i \in 1..Len(file_cert) |-> file_cert[Len(file_cert) + 1 - i] ] \o << 112 >>

\* CertificatePinningAdapter.__init__: self._expected_fingerprint, <<>> for
\* None or "". cert_fingerprint: <<>> for None; cert_file: <<>> when cert_path
\* is None or no such file exists, else << the certificate in it >>
expected_fingerprint(cert_fingerprint, cert_file, crypto) ==
    IF cert_file # <<>>
    THEN calculate_cert_fingerprint(crypto, cert_file[1])
    ELSE IF cert_fingerprint # <<>> THEN ParseFingerprint(cert_fingerprint)
         ELSE <<>>

\* _verify_certificate_fingerprint that takes a failed probe for a mismatch
verify_certificate_fingerprint_FailClosed(expected, scheme, probe) ==
    IF scheme # "https" THEN "none"
    ELSE IF probe = <<>> THEN "CertificatePinningError"
         ELSE IF probe[1] # expected THEN "CertificatePinningError" ELSE "none"

\* CertificatePinningAdapter._verify_certificate_fingerprint: the exception
\* that leaves it. probe: <<>> when the second connection or its handshake
\* fails, else << digest of the certificate it was shown >>
verify_certificate_fingerprint(expected, scheme, probe) ==
    IF scheme # "https" THEN "none"
    ELSE IF probe = <<>> THEN "none"
         ELSE IF probe[1] # expected THEN "CertificatePinningError" ELSE "none"

\* CertificatePinningAdapter.send: what the session gets, a response or an
\* exception. transport: "ok" when super().send returns a response
send(expected, skip_verify, scheme, transport, probe) ==
    IF transport # "ok"
    THEN [ response |-> FALSE, raised |-> "RequestException" ]
    ELSE IF expected # <<>> /\ ~skip_verify
            /\ verify_certificate_fingerprint(expected, scheme, probe) # "none"
         THEN [ response |-> FALSE,
                raised |-> verify_certificate_fingerprint(expected, scheme, probe) ]
         ELSE [ response |-> TRUE, raised |-> "none" ]

----------------------------------------------------------------------------
(* SpecPin: one adapter, one request *)

\* The configuration: the digest the operator pinned and how it is written
\* (<<>>: no cert_fingerprint), the certificate file, and skip_verify
PinExperiment(pinned, style, cert_file, crypto, skip_verify) ==
    [ step |-> "new", pinned |-> pinned, style |-> style,
      cert_fingerprint |-> IF pinned = <<>> THEN <<>> ELSE Written(style, pinned[1]),
      cert_file |-> cert_file, crypto |-> crypto, skip_verify |-> skip_verify,
      expected |-> <<>>, scheme |-> "https", transport |-> "ok", probe |-> <<>>,
      out |-> [ response |-> FALSE, raised |-> "none" ] ]

\* Certificates found in a cert_path file
FileCerts == { [ i \in 1..FpLen |-> 49 ], [ i \in 1..FpLen |-> 97 ] }

InitPin ==
    /\ now = 0
    /\ license_info = <<>>
    /\ cache_file = <<>>
    /\ legacy_file = <<>>
    /\ stop_heartbeat = FALSE
    /\ heartbeat_thread = "none"
    /\ public_key = FALSE
    /\ last = NoCall
    /\ phase = "none"
    /\ secure = NoWrapper
    /\ \E skip \in BOOLEAN :
         \/ c = PinExperiment(<<>>, "lower", <<>>, TRUE, skip)
         \/ \E d \in Digests, style \in FingerprintStyles :
              c = PinExperiment(<< d >>, style, <<>>, TRUE, skip)
         \/ \E d \in FileCerts, f \in FileCerts, crypto \in BOOLEAN :
              \/ c = PinExperiment(<<>>, "lower", << f >>, crypto, skip)
              \/ c = PinExperiment(<< d >>, "colons", << f >>, crypto, skip)

\* session.mount('https://', CertificatePinningAdapter(...))
Mount ==
    /\ c.step = "new"
    /\ c' = [c EXCEPT !.step = "mounted",
                      !.expected = expected_fingerprint(c.cert_fingerprint,
                                                        c.cert_file, c.crypto)]
    /\ UNCHANGED smVars

\* One request goes through the adapter
Send ==
    /\ c.step = "mounted"
    /\ \E scheme \in {"https", "http"}, transport \in {"ok", "fail"},
          probe \in {<<>>} \cup { << d >> : d \in Digests } :
         c' = [c EXCEPT !.step = "sent", !.scheme = scheme,
                        !.transport = transport, !.probe = probe,
                        !.out = send(c.expected, c.skip_verify, scheme,
                                     transport, probe)]
    /\ UNCHANGED smVars

NextPin ==
    \/ Mount
    \/ Send

SpecPin == InitPin /\ [][NextPin]_vars

----------------------------------------------------------------------------
(* SpecSig: _verify_response_signature on one payload *)

MaxStamp == 2   \* payload timestamps 0..MaxStamp

\* self.signature_time_window: switched off, one second, the default
SigWindows == { 0, 1, signature_time_window }

\* int(time.time()) when the payload is examined
SigClocks ==
    0..(MaxStamp + 2) \cup { signature_time_window + k : k \in 0..(MaxStamp + 1) }

\* One client and one payload. pem: self.public_key_pem is given; crypto:
\* CRYPTO_AVAILABLE; key: self._public_key is loaded; assigned is history: the
\* caller has assigned require_signature itself
SigExperiment(pem, crypto, require, window, data, t) ==
    [ step |-> "new", pem |-> pem, crypto |-> crypto, key |-> pem /\ crypto,
      require |-> require, window |-> window, data |-> data, t |-> t,
      out |-> "none", assigned |-> FALSE ]

\* set_public_key that leaves require_signature as it is
set_public_key_KeepsFlag(x, loads) ==
    [x EXCEPT !.pem = TRUE,
              !.key = IF x.crypto /\ loads THEN TRUE ELSE @]

\* LicenseClient.set_public_key on the client of experiment x; loads: the PEM
\* text is one load_pem_public_key reads (else _init_public_key raises
\* LicenseError, after the two assignments)
set_public_key(x, loads) ==
    [x EXCEPT !.pem = TRUE,
              !.require = TRUE,
              !.key = IF x.crypto /\ loads THEN TRUE ELSE @]

InitSig ==
    /\ now = 0
    /\ license_info = <<>>
    /\ cache_file = <<>>
    /\ legacy_file = <<>>
    /\ stop_heartbeat = FALSE
    /\ heartbeat_thread = "none"
    /\ public_key = FALSE
    /\ last = NoCall
    /\ phase = "none"
    /\ secure = NoWrapper
    /\ \E pem \in BOOLEAN, crypto \in BOOLEAN, flag \in BOOLEAN,
          window \in SigWindows, sig \in {"none", "bad", "good"},
          ts \in {Absent} \cup 0..MaxStamp, t \in SigClocks :
         \* __init__, line 390: require_signature or (public_key_pem is not
         \* None); lines 404-405: the key is loaded if the package is there
         c = SigExperiment(pem, crypto, flag \/ pem, window,
                           Fragment("true", Absent, Absent, sig, ts), t)

\* LicenseClient.set_public_key
SetPublicKey ==
    /\ c.step = "new"
    /\ \E loads \in BOOLEAN : c' = set_public_key(c, loads)
    /\ UNCHANGED smVars

\* The caller clears client.require_signature
ClearRequire ==
    /\ c.step = "new"
    /\ c' = [c EXCEPT !.require = FALSE, !.assigned = TRUE]
    /\ UNCHANGED smVars

\* self._verify_response_signature(data, data.get('signature', ''))
VerifySignature ==
    /\ c.step = "new"
    /\ c' = [c EXCEPT !.step = "verified",
                      !.out = verify_response_signature(c.key, c.require, c.window,
                                                        c.data, c.t)]
    /\ UNCHANGED smVars

NextSig ==
    \/ SetPublicKey
    \/ ClearRequire
    \/ VerifySignature

SpecSig == InitSig /\ [][NextSig]_vars

----------------------------------------------------------------------------
(* SecureLicenseClient (license_security.py) *)

full_check_every == 10       \* is_valid: self._check_count % 10 == 0
full_check_cooldown == 300   \* is_valid: time.time() - self._last_full_check > 300
rollback_tolerance == 300    \* TimeChecker.check: current_time < last - 300
MaxCalls == 2                \* is_valid() bodies run in one behaviour

\* time.time() of the model counts from an instant of the run; 0 of the
\* program's clock (1970), the first value of self._last_full_check, lies
\* more than the cooldown before it
Epoch == 0 - (full_check_cooldown + 1)

\* The checks of AntiDebug.is_debugger_present that answer True at one
\* moment: sys.gettrace, environment variables, parent process, timing
DebugSamples == { {}, {"trace", "env"} }

\* AntiDebug.is_debugger_present: the first check that answers True decides
is_debugger_present(indicators) == indicators # {}

\* What a call meets: the indicators when the decorator looks, the
\* indicators when _full_security_check looks, and whether the SDK's files
\* still have the hashes taken at construction
Environments == [ entry : DebugSamples, inner : DebugSamples, integrity : BOOLEAN ]

\* check with <= for < in the tolerance test
time_check_Inclusive(last_check_time, t) ==
    IF t <= last_check_time - rollback_tolerance
    THEN [ ok |-> FALSE, last_check_time |-> last_check_time ]
    ELSE [ ok |-> TRUE, last_check_time |-> t ]

\* TimeChecker.check, lines 173-181: the answer and self._last_check_time
time_check(last_check_time, t) ==
    IF t < last_check_time - rollback_tolerance
    THEN [ ok |-> FALSE, last_check_time |-> last_check_time ]
    ELSE [ ok |-> TRUE, last_check_time |-> t ]

\* DistributedValidator.validate_all over the validators of
\* _setup_validators: integrity, time, license, valid_flag, in that order
validate_all(last_check_time, client, t, env) ==
    IF ~env.integrity
    THEN [ ok |-> FALSE, last_check_time |-> last_check_time ]
    ELSE IF ~time_check(last_check_time, t).ok
         THEN [ ok |-> FALSE, last_check_time |-> last_check_time ]
         ELSE [ ok |-> /\ client.license_info # <<>>
                       /\ Truthy(client.license_info[1]),
                last_check_time |-> t ]

\* SecureLicenseClient._full_security_check: passed or not, the reason given
\* to _on_security_violation, and the TimeChecker's memory afterwards
full_security_check(wrapper, client, t, env) ==
    IF is_debugger_present(env.inner)
    THEN [ ok |-> FALSE, reason |-> "debugger_detected",
           last_check_time |-> wrapper.last_check_time ]
    ELSE IF ~time_check(wrapper.last_check_time, t).ok
    THEN [ ok |-> FALSE, reason |-> "time_rollback",
           last_check_time |-> wrapper.last_check_time ]
    ELSE IF wrapper.enable_integrity_check /\ ~env.integrity
    THEN [ ok |-> FALSE, reason |-> "integrity_failed", last_check_time |-> t ]
    ELSE LET all == validate_all(t, client, t, env)
         IN [ ok |-> all.ok,
              reason |-> IF all.ok THEN "none" ELSE "validation_failed",
              last_check_time |-> all.last_check_time ]

\* _on_security_violation that erases nothing
on_security_violation_LogsOnly(client) == client

\* SecureLicenseClient._on_security_violation
on_security_violation(client) == clear_cache(client)

\* The schedule that counts calls and does not look at the clock
full_check_due_CountOnly(check_count, last_full_check, t) ==
    check_count % full_check_every = 0

\* The schedule with >= for > in the cooldown test
full_check_due_Inclusive(check_count, last_full_check, t) ==
    \/ check_count % full_check_every = 0
    \/ t - last_full_check >= full_check_cooldown

\* SecureLicenseClient.is_valid, line 381; check_count: the counter after
\* "self._check_count += 1"
full_check_due(check_count, last_full_check, t) ==
    \/ check_count % full_check_every = 0
    \/ t - last_full_check > full_check_cooldown

\* SecureLicenseClient.is_valid under @secure_check: the wrapper and the
\* call's outcome. ran and reason are history, kept for the properties:
\*   "blocked"     the decorator saw a debugger and returned False
\*   "cheap"       no full check: only self._client.is_valid()
\*   "full_passed" / "full_failed"  _full_security_check ran
\* verdict is history too: how the most recent _full_security_check ended;
\* and passed_at: the clock when a _full_security_check last passed
secure_is_valid(wrapper, client, t, resp, env) ==
    IF is_debugger_present(env.entry)
    THEN [ wrapper |-> [wrapper EXCEPT !.ran = "blocked", !.reason = "none"],
           out |-> Outcome(client, "false", "none", 0) ]
    ELSE LET count == wrapper.check_count + 1
             scheduled == full_check_due(count, wrapper.last_full_check, t)
             chk == full_security_check(wrapper, client, t, env)
         IN IF scheduled /\ ~chk.ok
            THEN [ wrapper |-> [wrapper EXCEPT
                                  !.check_count = count,
                                  !.last_check_time = chk.last_check_time,
                                  !.ran = "full_failed",
                                  !.verdict = "failed",
                                  !.reason = chk.reason],
                   out |-> Outcome(on_security_violation(client), "false", "none", 0) ]
            ELSE [ wrapper |-> [wrapper EXCEPT
                                  !.check_count = count,
                                  !.last_full_check = IF scheduled THEN t ELSE @,
                                  !.last_check_time =
                                      IF scheduled THEN chk.last_check_time ELSE @,
                                  !.ran = IF scheduled THEN "full_passed" ELSE "cheap",
                                  !.verdict = IF scheduled THEN "passed" ELSE @,
                                  !.passed_at = IF scheduled THEN << t >> ELSE @,
                                  !.reason = "none"],
                   out |-> is_valid(client, t, resp) ]

\* SecureLicenseClient.__init__ (check_count 0, last_full_check Epoch), and the
\* wrapper later in its life. last_check_time: the clock at construction (no
\* later time is found in the TimeChecker's file)
Wrapper(check_count, last_full_check, enable_integrity_check, last_check_time) ==
    [ check_count |-> check_count, last_full_check |-> last_full_check,
      last_check_time |-> last_check_time,
      enable_integrity_check |-> enable_integrity_check,
      ran |-> "none", verdict |-> "none", reason |-> "none",
      passed_at |-> IF last_full_check = Epoch THEN <<>>
                    ELSE << last_full_check >> ]

----------------------------------------------------------------------------
(* SpecTime: one TimeChecker, its file and a wall clock that is set forward
   and back *)

\* str(time.time()) written by _save_current_time; the clock in whole seconds
time_text(t) == Digits(t)

\* float(f.read().strip()) of _load_last_time on a text of the file: the
\* number, or ValueError
float_of(text) ==
    IF /\ text # <<>>
       /\ \A i \in 1..Len(text) : text[i] >= 48 /\ text[i] <= 57
    THEN Ok(NumberValue(text))
    ELSE Raise

\* TimeChecker._load_last_time: the later of the clock at construction and the
\* time in the file; a missing or unreadable file is passed over
load_last_time(last_check_time, file) ==
    IF file = <<>> THEN last_check_time
    ELSE LET saved_time == float_of(file[1])
         IN IF saved_time.ok /\ saved_time.value > last_check_time
            THEN saved_time.value
            ELSE last_check_time

\* TimeChecker._save_current_time: the file afterwards
save_current_time(t) == << time_text(t) >>

\* TimeChecker.check on the checker's memory and file: the answer, the memory
\* and the file afterwards
checker_check(last_check_time, file, t) ==
    LET r == time_check(last_check_time, t)
    IN [ ok |-> r.ok, last_check_time |-> r.last_check_time,
         file |-> IF r.ok THEN save_current_time(t) ELSE file ]

\* The clock's settings: two a second apart, one half a tolerance later, and two
\* more than a tolerance later
TimeClocks ==
    { 0, 1, rollback_tolerance \div 2, rollback_tolerance + 1,
      rollback_tolerance + 2 }

\* The file of an earlier run of the program, unreadable, or none
TimeFiles == {<<>>, << Garbage >>} \cup { save_current_time(t) : t \in TimeClocks }

\* op: what happened last; peak: the latest time self._last_check_time has
\* held since the checker was built (history)
TimeState(op, clock, last_check_time, file, out, peak) ==
    [ op |-> op, clock |-> clock, last_check_time |-> last_check_time,
      file |-> file, out |-> out, peak |-> peak ]

\* TimeChecker.__init__ at a setting of the clock
TimeConstructed(clock, file) ==
    LET loaded == load_last_time(clock, file)
    IN TimeState("init", clock, loaded, file, "none", loaded)

InitTime ==
    /\ now = 0
    /\ license_info = <<>>
    /\ cache_file = <<>>
    /\ legacy_file = <<>>
    /\ stop_heartbeat = FALSE
    /\ heartbeat_thread = "none"
    /\ public_key = FALSE
    /\ last = NoCall
    /\ phase = "none"
    /\ secure = NoWrapper
    /\ \E clock \in TimeClocks, file \in TimeFiles :
         c = TimeConstructed(clock, file)

\* self._time_checker.check()
TimeCheck ==
    /\ LET r == checker_check(c.last_check_time, c.file, c.clock)
       IN c' = [c EXCEPT !.op = "check", !.out = Bool(r.ok),
                         !.last_check_time = r.last_check_time,
                         !.file = r.file,
                         !.peak = IF r.last_check_time > @
                                  THEN r.last_check_time ELSE @]
    /\ UNCHANGED smVars

\* The wall clock is set back
TimeSetBack ==
    /\ \E t \in TimeClocks :
         /\ t < c.clock
         /\ c' = [c EXCEPT !.op = "back", !.clock = t, !.out = "none"]
    /\ UNCHANGED smVars

\* The wall clock runs or is set forward
TimeSetForward ==
    /\ \E t \in TimeClocks :
         /\ t > c.clock
         /\ c' = [c EXCEPT !.op = "forward", !.clock = t, !.out = "none"]
    /\ UNCHANGED smVars

\* The program is started again: a new TimeChecker on the same file
TimeRestart ==
    /\ c' = TimeConstructed(c.clock, c.file)
    /\ UNCHANGED smVars

NextTime ==
    \/ TimeCheck
    \/ TimeSetBack
    \/ TimeSetForward
    \/ TimeRestart

SpecTime == InitTime /\ [][NextTime]_vars

----------------------------------------------------------------------------
(* SpecSecure: the client used through its SecureLicenseClient *)

\* The server accepts with valid true or false, or cannot be reached
SecureResponses ==
    { r \in Responses :
        \/ r.kind = "netfail"
        \/ /\ r.kind = "ok"
           /\ r.data \in { Fragment(v, Absent, Absent, "good", Absent) :
                             v \in {"true", "false"} } }

\* The clock within a few minutes: the cooldown just not over, and just over
SecureTimes == { 0, full_check_cooldown, full_check_cooldown + 1 }

\* The wrapper is new, or has run is_valid() full_check_every - 1 times, with
\* its last full check passed just now or none passed so far
InitSecure ==
    /\ now \in SecureTimes
    /\ public_key = TRUE
    /\ \E cf \in {<<>>} \cup { << Blob(r) >> : r \in StoredRecords } :
         LET self == load_cache([ license_info |-> <<>>, cache_file |-> cf,
                                  legacy_file |-> <<>>, stop_heartbeat |-> FALSE,
                                  heartbeat_thread |-> "none" ])
         IN /\ license_info = self.license_info
            /\ cache_file = self.cache_file
            /\ legacy_file = self.legacy_file
            /\ stop_heartbeat = self.stop_heartbeat
            /\ heartbeat_thread = self.heartbeat_thread
    /\ last = NoCall
    /\ phase = "none"
    /\ \E enable \in BOOLEAN :
         \/ secure = Wrapper(0, Epoch, enable, now)
         \/ \E passed \in {Epoch, now} :
              secure = Wrapper(full_check_every - 1, passed, enable, now)
    /\ c = <<>>

\* SecureLicenseClient.is_valid
SecureIsValid ==
    /\ \/ secure.check_count < MaxCalls
       \/ /\ secure.check_count >= full_check_every - 1
          /\ secure.check_count < full_check_every - 1 + MaxCalls
    /\ \E resp \in SecureResponses, env \in Environments :
         LET r == secure_is_valid(secure, Self, now, resp, env)
         IN /\ secure' = r.wrapper
            /\ license_info' = r.out.self.license_info
            /\ cache_file' = r.out.self.cache_file
            /\ legacy_file' = r.out.self.legacy_file
            /\ stop_heartbeat' = r.out.self.stop_heartbeat
            /\ heartbeat_thread' = r.out.self.heartbeat_thread
            /\ last' = Called("secure_is_valid", r.out, resp, now)
            /\ phase' = Phase("is_valid", r.out, resp)
    /\ UNCHANGED <<now, public_key, c>>

\* _heartbeat_loop after time.sleep, as HeartbeatLoopWake
SecureHeartbeatLoopWake == ThreadWakes(SecureResponses)

\* The wall clock moves, forward or back
SecureTick ==
    /\ \E t \in SecureTimes \ {now} : now' = t
    /\ last' = [NoCall EXCEPT !.op = "tick"]
    /\ UNCHANGED <<license_info, cache_file, legacy_file, stop_heartbeat,
                   heartbeat_thread, public_key, phase, secure, c>>

\* SecureLicenseClient.activate
SecureActivate ==
    \E resp \in SecureResponses : Returns("activate", activate(Self, now, resp), resp)

\* SecureLicenseClient.deactivate
SecureDeactivate ==
    \E resp \in SecureResponses : Returns("deactivate", deactivate(Self, now, resp), resp)

NextSecure ==
    \/ SecureIsValid
    \/ SecureActivate
    \/ SecureDeactivate
    \/ SecureTick
    \/ HeartbeatLoopTest
    \/ SecureHeartbeatLoopWake

SpecSecure == InitSecure /\ [][NextSecure]_vars

----------------------------------------------------------------------------
(* SpecThreads: the caller's thread and the heartbeat threads of one client,
   statement by statement. The client has encrypt_cache = False, so the cache
   file <app_key>.json holds json.dumps of the record as it is, and the legacy
   name of _load_cache and _clear_cache is the same path. *)

MaxOps == 3              \* calls the caller's thread makes in one behaviour
ThreadClockStart == 9    \* the clock, in seconds, when the client is built
ThreadClockEnd == ThreadClockStart + 1    \* it moves up to here

ThreadTimes == ThreadClockStart..ThreadClockEnd

\* json.dumps(None)
Null == << 110, 117, 108, 108 >>

\* The answers a request gets: accepted with valid true or false, or failed
\* with a LicenseError (rejected or unreachable)
ThreadAnswers ==
    { r \in Responses :
        \/ r.kind = "netfail"
        \/ /\ r.kind = "ok"
           /\ r.data \in { Fragment(v, Absent, Absent, "good", Absent) :
                             v \in {"true", "false"} } }

\* What one thread of execution holds: the statement it is at, the statement
\* _save_cache returns to, the local `content` of _save_cache, the answer
\* `result` of its request, and whether the file it has open was removed
\* from the directory since it opened it. late is history: the requests the
\* thread has started while self._stop_heartbeat was set; raised and during
\* are history too: the exception that ended the thread, and whether its
\* latest heartbeat() began while the caller was inside deactivate()
Frame(pc) ==
    [ pc |-> pc, ret |-> "idle", content |-> <<>>, result |-> EmptyData,
      detached |-> FALSE, late |-> 0, raised |-> "none", during |-> FALSE ]

\* f.write(content) on a file opened with 'w' by this thread: the bytes go to
\* offset 0 of the file, over what another thread has written there since
Overlay(content, old) ==
    IF Len(content) >= Len(old) THEN content
    ELSE content \o SubSeq(old, Len(content) + 1, Len(old))

\* The statements of _save_cache and _clear_cache
SaveStatements == { "save_test", "save_dumps", "save_open", "save_write" }
ClearStatements ==
    { "clear_exists", "clear_remove", "clear_exists2", "clear_remove2",
      "clear_none" }

\* os.remove(path): the name is gone; the threads that have the file open
\* keep writing to a file no name leads to
Removed(frames) ==
    [ i \in DOMAIN frames |->
        IF frames[i].pc = "save_write"
        THEN [frames[i] EXCEPT !.detached = TRUE] ELSE frames[i] ]

\* One statement of _save_cache or _clear_cache run by the thread with frame
\* f: the frame, the file, self._license_info and the other threads' frames
\* (`others`) afterwards
cache_statement(f, file, info, others) ==
    LET same == [ frame |-> f, file |-> file, info |-> info, others |-> others ]
    IN CASE f.pc = "save_test" ->      \* line 561
              [same EXCEPT !.frame.pc = IF info = <<>> THEN f.ret ELSE "save_dumps"]
         [] f.pc = "save_dumps" ->     \* line 563
              [same EXCEPT !.frame.pc = "save_open",
                           !.frame.content =
                               IF info = <<>> THEN Null
                               ELSE write_cache(FALSE, FALSE, 1, 5, info[1])]
         [] f.pc = "save_open" ->      \* line 568: created or truncated
              [same EXCEPT !.frame.pc = "save_write",
                           !.frame.detached = FALSE,
                           !.file = << <<>> >>]
         [] f.pc = "save_write" ->     \* line 569 and the end of "with"
              [same EXCEPT !.frame.pc = f.ret,
                           !.frame.content = <<>>,
                           !.frame.detached = FALSE,
                           !.file = IF f.detached \/ file = <<>> THEN file
                                    ELSE << Overlay(f.content, file[1]) >>]
         [] f.pc = "clear_exists" ->   \* line 574
              [same EXCEPT !.frame.pc = IF file # <<>> THEN "clear_remove"
                                        ELSE "clear_exists2"]
         [] f.pc = "clear_remove" ->   \* line 575
              [same EXCEPT !.frame.pc = "clear_exists2",
                           !.file = <<>>,
                           !.others = Removed(others)]
         [] f.pc = "clear_exists2" ->  \* line 578
              [same EXCEPT !.frame.pc = IF file # <<>> THEN "clear_remove2"
                                        ELSE "clear_none"]
         [] f.pc = "clear_remove2" ->  \* line 579
              [same EXCEPT !.frame.pc = "clear_none",
                           !.file = <<>>,
                           !.others = Removed(others)]
         [] f.pc = "clear_none" ->     \* line 580
              [same EXCEPT !.frame.pc = f.ret, !.info = <<>>]

\* Thread.is_alive() of the thread object `thread` (0: None)
ThreadAlive(threads, thread) == thread # 0 /\ threads[thread].pc # "dead"

\* _start_heartbeat with no test of is_alive()
start_heartbeat_Always(threads, thread) == "start_new"

\* _start_heartbeat, lines 826-827: return, or go on to start a thread
start_heartbeat_test(threads, thread) ==
    IF ThreadAlive(threads, thread) THEN "idle" ELSE "start_new"

\* _heartbeat_loop that does not look at the flag before sleeping again
heartbeat_loop_test_Deaf(stop) == "sleep"

\* _heartbeat_loop, line 834: "while not self._stop_heartbeat"
heartbeat_loop_test(stop) == IF stop THEN "dead" ELSE "sleep"

\* life is history: "deactivated" once deactivate() has returned True,
\* "reactivated" once an activate() or login() after that has returned,
\* "closed" from close() on
ThreadState(t, info, file, stop, thread, threads, caller, ops) ==
    [ now |-> t, license_info |-> info, file |-> file, stop_heartbeat |-> stop,
      heartbeat_thread |-> thread, threads |-> threads, caller |-> caller,
      ops |-> ops, life |-> "new" ]

\* A client constructed with no cache file
InitThreads ==
    /\ now = 0
    /\ license_info = <<>>
    /\ cache_file = <<>>
    /\ legacy_file = <<>>
    /\ stop_heartbeat = FALSE
    /\ heartbeat_thread = "none"
    /\ public_key = FALSE
    /\ last = NoCall
    /\ phase = "none"
    /\ secure = NoWrapper
    /\ c = ThreadState(ThreadClockStart, <<>>, <<>>, FALSE, 0, <<>>, Frame("idle"), 0)

\* The caller calls activate, login, verify or deactivate: up to the request
CallerBegins ==
    /\ c.caller.pc = "idle"
    /\ c.ops < MaxOps
    /\ \E op \in {"activate", "login", "verify", "deactivate"} :
         c' = [c EXCEPT !.caller.pc = op, !.ops = @ + 1]
    /\ UNCHANGED smVars

\* self._request returns or raises LicenseError (lines 615, 666, 733, 765)
CallerRequest ==
    /\ c.caller.pc \in {"activate", "login", "verify", "deactivate"}
    /\ \E resp \in ThreadAnswers :
         c' = [c EXCEPT
                 !.caller.result = IF request(resp) # "none" THEN EmptyData
                                   ELSE resp.data,
                 !.caller.ret = CASE request(resp) # "none" -> "idle"
                                  [] c.caller.pc \in {"activate", "login"} -> "start_test"
                                  [] c.caller.pc = "deactivate" -> "set_stop"
                                  [] OTHER -> "idle",
                 !.caller.pc =
                     IF request(resp) # "none" THEN "idle"
                     ELSE CASE c.caller.pc \in {"activate", "login"} -> "assign"
                            [] c.caller.pc = "verify" -> "verify_test"
                            [] c.caller.pc = "deactivate" -> "clear_exists"]
    /\ UNCHANGED smVars

\* The caller's next statement after the request
CallerStep ==
    /\ c.caller.pc \notin {"idle", "activate", "login", "verify", "deactivate"}
    /\ LET f == c.caller
       IN CASE f.pc = "assign" ->          \* lines 616-621, 667-672
                 c' = [c EXCEPT !.license_info = << FreshRecord(f.result, c.now) >>,
                                !.caller.result = EmptyData,
                                !.caller.pc = "save_test"]
            [] f.pc = "verify_test" ->     \* line 734
                 c' = [c EXCEPT !.caller.pc = IF c.license_info = <<>> THEN "idle"
                                              ELSE "verify_stamp"]
            [] f.pc = "verify_stamp" ->    \* line 735
                 c' = [c EXCEPT !.license_info[1].last_verified_at = c.now,
                                !.caller.pc = "verify_update"]
            [] f.pc = "verify_update" ->   \* line 736
                 c' = [c EXCEPT !.license_info = << Update(c.license_info[1], f.result) >>,
                                !.caller.result = EmptyData,
                                !.caller.pc = "save_test"]
            [] f.pc = "set_stop" ->        \* line 767
                 c' = [c EXCEPT !.stop_heartbeat = TRUE, !.caller.pc = "idle",
                                !.life = IF @ = "closed" THEN @ ELSE "deactivated"]
            [] f.pc = "start_test" ->      \* lines 826-827
                 LET next == start_heartbeat_test(c.threads, c.heartbeat_thread)
                 IN c' = [c EXCEPT !.caller.pc = next,
                                   !.life = IF next = "idle" /\ @ = "deactivated"
                                            THEN "reactivated" ELSE @]
            [] f.pc = "start_new" ->       \* lines 828-830
                 c' = [c EXCEPT !.stop_heartbeat = FALSE,
                                !.threads = Append(@, Frame("test")),
                                !.heartbeat_thread = Len(c.threads) + 1,
                                !.caller.pc = "idle",
                                !.life = IF @ = "deactivated"
                                         THEN "reactivated" ELSE @]
            [] OTHER ->                    \* _save_cache, _clear_cache
                 LET r == cache_statement(f, c.file, c.license_info, c.threads)
                 IN c' = [c EXCEPT !.caller = r.frame, !.file = r.file,
                                   !.license_info = r.info, !.threads = r.others]
    /\ UNCHANGED smVars

\* close()
CallerCloses ==
    /\ c.caller.pc = "idle"
    /\ c.ops < MaxOps
    /\ c' = [c EXCEPT !.stop_heartbeat = TRUE, !.ops = @ + 1,
                      !.life = "closed"]
    /\ UNCHANGED smVars

\* The next statement of heartbeat thread i: _heartbeat_loop, heartbeat and
\* _save_cache. An exception that is no LicenseError ends the thread.
ThreadStep(i) ==
    /\ c.threads[i].pc # "dead"
    /\ LET f == c.threads[i]
       IN CASE f.pc = "test" ->            \* line 834
                 c' = [c EXCEPT !.threads[i].pc = heartbeat_loop_test(c.stop_heartbeat)]
            [] f.pc = "sleep" ->           \* line 835
                 c' = [c EXCEPT !.threads[i].pc = "test2"]
            [] f.pc = "test2" ->           \* line 836
                 c' = [c EXCEPT !.threads[i].pc = IF c.stop_heartbeat THEN "test"
                                                  ELSE "request",
                                !.threads[i].during =
                                    /\ ~c.stop_heartbeat
                                    /\ c.caller.pc \in {"deactivate", "set_stop"}
                                                         \cup ClearStatements]
            [] f.pc = "request" ->         \* line 750
                 \E resp \in ThreadAnswers :
                   c' = [c EXCEPT !.threads[i].ret = "test",
                                  !.threads[i].late =
                                      IF c.stop_heartbeat THEN @ + 1 ELSE @,
                                  !.threads[i].pc = IF request(resp) # "none" THEN "test"
                                                    ELSE "heartbeat_test"]
            [] f.pc = "heartbeat_test" ->  \* line 751
                 c' = [c EXCEPT !.threads[i].pc = IF c.license_info = <<>> THEN "test"
                                                  ELSE "heartbeat_stamp"]
            [] f.pc = "heartbeat_stamp" -> \* line 752; TypeError on None
                 IF c.license_info = <<>>
                 THEN c' = [c EXCEPT !.threads[i].pc = "dead",
                                     !.threads[i].raised = "TypeError"]
                 ELSE c' = [c EXCEPT !.license_info[1].last_verified_at = c.now,
                                     !.threads[i].pc = "save_test"]
            [] OTHER ->                    \* _save_cache
                 LET r == cache_statement(f, c.file, c.license_info,
                                          [c.threads EXCEPT ![i] = Frame("dead")])
                 IN c' = [c EXCEPT !.threads = [r.others EXCEPT ![i] = r.frame],
                                   !.file = r.file,
                                   !.license_info = r.info]
    /\ UNCHANGED smVars

HeartbeatThreadStep == \E i \in DOMAIN c.threads : ThreadStep(i)

\* A second passes
ThreadTick ==
    /\ c.now < ThreadClockEnd
    /\ c' = [c EXCEPT !.now = @ + 1]
    /\ UNCHANGED smVars

NextThreads ==
    \/ CallerBegins
    \/ CallerRequest
    \/ CallerStep
    \/ CallerCloses
    \/ HeartbeatThreadStep
    \/ ThreadTick

SpecThreads == InitThreads /\ [][NextThreads]_vars

\* The heartbeat thread is a thread of the operating system: it is given the
\* processor again and again, time.sleep(heartbeat_interval) returns, and the
\* request returns or fails within self.timeout
SpecThreadsLive == SpecThreads /\ WF_vars(HeartbeatThreadStep)

----------------------------------------------------------------------------
(* Properties of the state machine *)

HasRecord == license_info # <<>>

Record == license_info[1]

\* The record a query at `now` is answered from without the server: validity
\* flag true, no expiry is_valid() reads in the past, at most the grace period since
\* last_verified_at.
ValidFlag == HasRecord /\ Record.valid = "true"

NotExpired == HasRecord /\ ~Expired(Record, now)

WithinGrace == HasRecord /\ now - Record.last_verified_at <= GraceSeconds

RecordUnchanged ==
    /\ license_info' = license_info
    /\ cache_file' = cache_file
    /\ legacy_file' = legacy_file

\* C1: for a record with a true validity flag, no expiry in the past and
\* (now - last_verified_at) / 86400 <= grace (boundary included), is_valid()
\* returns true, issues no server request and leaves the record as it is.
C1_WithinGraceValid ==
    [][ (last'.op = "is_valid" /\ ValidFlag /\ NotExpired /\ WithinGrace)
          => /\ last'.ret = "true"
             /\ last'.raised = "none"
             /\ last'.requests = 0
             /\ RecordUnchanged ]_vars

\* is_valid() answered true on the very boundary of the grace period
C1_Witness ==
    /\ last.op = "is_valid"
    /\ last.ret = "true"
    /\ last.requests = 0
    /\ ValidFlag
    /\ now - Record.last_verified_at = GraceSeconds

\* C2: for a record with a true validity flag, not expired and verified more
\* than the grace period ago, is_valid() asks the server once (verify()) and
\* returns verify()'s result: false when the server is unreachable or
\* rejects, the answer's valid field when it accepts.
C2_BeyondGraceReverifies ==
    [][ (last'.op = "is_valid" /\ ValidFlag /\ NotExpired /\ ~WithinGrace)
          => /\ last'.requests = 1
             /\ last'.kind \in {"netfail", "reject"}
                  => (last'.ret = "false" /\ last'.raised = "none")
             /\ last'.kind = "ok"
                  => (last'.ret = Bool(last'.valid = "true") /\ last'.raised = "none")
       ]_vars

\* is_valid() beyond grace with the server unreachable answered false
C2_Witness ==
    /\ last.op = "is_valid"
    /\ last.kind = "netfail"
    /\ last.ret = "false"
    /\ ValidFlag /\ ~WithinGrace

\* C3: verify(), heartbeat() and is_valid() never raise: whatever the request
\* does (also a certificate-pin mismatch) they return a boolean.
C3_NeverRaise ==
    last.op \in {"verify", "heartbeat", "is_valid"}
      => (last.raised = "none" /\ last.ret \in {"true", "false"})

\* C4: with a public key configured, activate, login, verify and heartbeat
\* leave the record and the cache as they were when the answer's signature is
\* missing, invalid or outside the replay window.
C4_OnlyVerifiedResponses ==
    [][ ( /\ last'.op \in {"activate", "login", "verify", "heartbeat"}
          /\ public_key
          /\ last'.kind = "ok"
          /\ last'.verdict # "accept" )
          => (license_info' = license_info /\ cache_file' = cache_file) ]_vars

C6_ValidAfterActivation ==
    ( /\ phase = "fresh"
      /\ last.op = "is_valid"
      /\ now - Record.last_verified_at <= (offline_grace_days - 1) * DaySeconds )
      => (last.ret = "true" /\ last.requests = 0)

\* C6 amended: an accepted activate/login writes the answer's fragment with
\* last_verified_at = now to the record and the cache; when that fragment has
\* valid = true and no expire_at before the time of the query, is_valid()
\* returns true without a server request up to (grace - 1) days later.
C6_ValidAfterActivationIfFlagged ==
    /\ (last.op \in {"activate", "login"} /\ last.kind = "ok")
         => /\ HasRecord
            /\ Record.last_verified_at = now
            /\ Record.valid = last.valid
            /\ cache_file = << Blob(Record) >>
    /\ ( /\ phase = "fresh"
         /\ last.op = "is_valid"
         /\ now - Record.last_verified_at <= (offline_grace_days - 1) * DaySeconds
         /\ ValidFlag /\ NotExpired )
         => (last.ret = "true" /\ last.requests = 0 /\ last.raised = "none")

\* is_valid() answered true (grace - 1) days after the activation
C6_Witness ==
    /\ phase = "fresh"
    /\ last.op = "is_valid"
    /\ last.ret = "true"
    /\ now - Record.last_verified_at = (offline_grace_days - 1) * DaySeconds
    /\ now > Record.last_verified_at

\* is_valid() answers false whatever the server would say
IsValidFalse ==
    \A resp \in Responses : is_valid(Self, now, resp).ret = "false"

NoLicense ==
    /\ license_info = <<>>
    /\ cache_file = <<>>
    /\ legacy_file = <<>>
    /\ stop_heartbeat
    /\ IsValidFalse

\* C7 as stated: after every deactivate() call that returns, the record is
\* absent, no cache file is left, the heartbeat is told to stop and
\* is_valid() returns false.
C7_DeactivateAlwaysClears ==
    (last.op = "deactivate" /\ last.raised = "none") => NoLicense

\* C7 amended: the same after every deactivate() call that returns true.
C7_DeactivateTrueClears ==
    (last.op = "deactivate" /\ last.ret = "true") => NoLicense

\* deactivate() returned true on a client with a running heartbeat thread
C7_Witness ==
    /\ last.op = "deactivate"
    /\ last.ret = "true"
    /\ IsAlive(heartbeat_thread)
    /\ NoLicense

\* C8: last_verified_at never decreases from one state to the next, except
\* when activate/login resets it or deactivate clears it.
C8_LastVerifiedMonotonic ==
    [][ ( /\ license_info # <<>>
          /\ license_info' # <<>>
          /\ last'.op \notin {"activate", "login", "deactivate"} )
          => license_info'[1].last_verified_at >= license_info[1].last_verified_at
      ]_vars

----------------------------------------------------------------------------
(* Properties of the cache encoding *)

\* C9: decrypt(encrypt(r)) = r for every text r and every (machine id,
\* application key) pair, with Fernet and with the XOR fallback.
C9_DecryptInvertsEncrypt ==
    c.step = "decrypted" => c.out = Ok(c.data)

\* a text with a non-ASCII character came back from the XOR fallback
C9_Witness ==
    /\ c.step = "decrypted"
    /\ ~c.crypto
    /\ Len(c.data) = MaxLen
    /\ 233 \in { c.data[i] : i \in 1..Len(c.data) }
    /\ c.out = Ok(c.data)

\* is_valid() of a client whose record is `info` answers false, without a
\* request, at every time
AnswersFalse(info) ==
    \A t \in Times, resp \in Responses :
       LET out == is_valid([ license_info |-> info, cache_file |-> <<>>,
                             legacy_file |-> <<>>, stop_heartbeat |-> FALSE,
                             heartbeat_thread |-> "none" ], t, resp)
       IN out.ret = "false" /\ out.requests = 0 /\ out.raised = "none"

\* C10 as stated: when one byte of a persisted cache blob is altered, loading
\* leaves the record absent and is_valid() returns false.
C10_AlteredBlobIsAbsent ==
    (c.step = "loaded" /\ c.altered) => (c.loaded = <<>> /\ AnswersFalse(c.loaded))

\* Where the trust comes from: a file written by Fernet and altered in one
\* byte loads to no record (is_valid() false) or, when the base64 decoding does
\* not see the altered byte, to the record that was saved. Obfuscated or
\* plain files have no such check.
AlteredFernetBlobIsNotTrusted ==
    (c.step = "loaded" /\ c.altered /\ c.encrypt_cache /\ c.crypto)
      => /\ c.loaded \in { <<>>, c.record }
         /\ c.loaded = <<>> => AnswersFalse(c.loaded)

\* an altered Fernet blob was loaded and gave no record
AlteredFernetBlobLoaded ==
    /\ c.step = "loaded"
    /\ c.altered
    /\ c.encrypt_cache /\ c.crypto
    /\ c.loaded = <<>>

----------------------------------------------------------------------------
(* Properties of certificate pinning *)

\* a and b have the same length and differ in exactly one character
DiffersInOne(a, b) ==
    /\ Len(a) = Len(b)
    /\ Cardinality({ i \in 1..Len(a) : a[i] # b[i] }) = 1

\* the request went over https, was answered, and the probe saw a certificate
Probed == c.step = "sent" /\ c.scheme = "https" /\ c.transport = "ok" /\ c.probe # <<>>

\* C11: in fingerprint mode the configured fingerprint, colons stripped and
\* lower-cased, is compared with the SHA-256 of the certificate the server
\* shows: equal raises nothing, one hex character different raises
\* CertificatePinningError; with skip_verify nothing is raised whatever
\* fingerprint or certificate file is configured.
C11_FingerprintPinning ==
    /\ (Probed /\ ~c.skip_verify /\ c.cert_file = <<>> /\ c.pinned # <<>>)
         => /\ c.expected = c.pinned[1]
            /\ c.probe = c.pinned => c.out.raised = "none" /\ c.out.response
            /\ DiffersInOne(c.probe[1], c.pinned[1])
                 => c.out.raised = "CertificatePinningError"
    /\ (c.step = "sent" /\ c.skip_verify)
         => c.out.raised # "CertificatePinningError"

\* a prefixed upper-case fingerprint with colons was pinned and the server
\* showed a certificate one hex character away
C11_Witness ==
    /\ Probed
    /\ ~c.skip_verify
    /\ c.cert_file = <<>>
    /\ c.pinned # <<>>
    /\ c.style = "prefixed"
    /\ DiffersInOne(c.probe[1], c.pinned[1])
    /\ c.out.raised = "CertificatePinningError"

\* C13: when the probe cannot be performed (the second connection or its
\* handshake fails) no CertificatePinningError is raised and the response
\* already received is returned.
C13_ProbeFailureIsNoViolation ==
    (c.step = "sent" /\ c.transport = "ok" /\ c.probe = <<>>)
      => c.out.raised = "none" /\ c.out.response

\* a fingerprint was pinned and enforced, and the probe failed
C13_Witness ==
    /\ c.step = "sent"
    /\ c.scheme = "https"
    /\ c.transport = "ok"
    /\ c.probe = <<>>
    /\ c.expected # <<>>
    /\ ~c.skip_verify
    /\ c.out.response

----------------------------------------------------------------------------
(* Properties of the client under a fingerprint mismatch *)

\* C12: when the request of activate, login, verify or heartbeat meets a
\* certificate-fingerprint mismatch, the answer is not used: the record in
\* memory and on disk is what it was before the call, and the call starts no
\* heartbeat thread.
C12_PinMismatchChangesNothing ==
    [][ (last'.op \in {"activate", "login", "verify", "heartbeat"}
         /\ last'.kind = "pin")
          => /\ last'.raised = "CertificatePinningError"
             /\ RecordUnchanged
             /\ heartbeat_thread' = heartbeat_thread
             /\ stop_heartbeat' = stop_heartbeat ]_vars

\* activate() met a mismatch on a client without a record
C12_Witness ==
    /\ last.op = "activate"
    /\ last.kind = "pin"
    /\ last.raised = "CertificatePinningError"
    /\ ~HasRecord
    /\ heartbeat_thread = "none"

----------------------------------------------------------------------------
(* Properties of response verification *)

\* |now - ts| of the payload under examination
SigAge == IF c.t >= c.data.timestamp THEN c.t - c.data.timestamp
          ELSE c.data.timestamp - c.t

\* the payload carries no timestamp, or the window is off, or the timestamp
\* is within the window
SigFresh == c.data.timestamp = Absent \/ c.window = 0 \/ SigAge <= c.window

C15_ReplayWindow ==
    (c.step = "verified" /\ c.data.timestamp # Absent /\ c.window > 0)
      => (c.out = "SignatureExpiredError" <=> SigAge > c.window)

\* C15 amended: with a key configured, for a signed payload with a nonzero
\* timestamp ts and a window > 0, the payload is rejected as expired exactly
\* when |now - ts| > window (exactly window seconds old passes the replay
\* check, window + 1 fails it); a payload with timestamp 0, or without a
\* signature, or examined without a key, is never rejected as expired.
C15_ReplayWindowOfSignedStamped ==
    (c.step = "verified" /\ c.data.timestamp # Absent /\ c.window > 0)
      => IF c.key /\ c.data.signature # "none" /\ c.data.timestamp # 0
         THEN c.out = "SignatureExpiredError" <=> SigAge > c.window
         ELSE c.out # "SignatureExpiredError"

\* a well signed payload exactly one default window old was accepted
C15_Witness ==
    /\ c.step = "verified"
    /\ c.key
    /\ c.data.signature = "good"
    /\ c.data.timestamp = 1
    /\ c.window = signature_time_window
    /\ SigAge = c.window
    /\ c.out = "accept"

----------------------------------------------------------------------------
(* Properties of the heartbeat thread and of the hardening layer *)

\* the heartbeat thread is alive and has not been told to stop
HeartbeatActive == IsAlive(heartbeat_thread) /\ ~stop_heartbeat

\* C16: in every reachable state, if the heartbeat thread is active (alive
\* and not told to stop) then a record exists; so after deactivate or the
\* hardening layer's violation handler erased the record it is not active.
C16_ActiveOnlyWithRecord == HeartbeatActive => HasRecord

\* C17: a heartbeat that fails in the background thread (rejected, network
\* failure, fingerprint mismatch) leaves the record with its
\* last_verified_at unchanged, and the thread keeps running and will call
\* heartbeat() again.
C17_FailedHeartbeatIsIsolated ==
    [][ (last'.op = "thread" /\ last'.kind \in {"reject", "netfail", "pin"})
          => /\ RecordUnchanged
             /\ IsAlive(heartbeat_thread') ]_vars

\* the step is a call of SecureLicenseClient.is_valid
SecureCall == last'.op = "secure_is_valid"

\* C18: whenever a full security check fails, for any failing check, the
\* call erases the record on disk and in memory and returns false as for any
\* invalid license: nothing is raised and no reason is given.
C18_FailedFullCheckErases ==
    [][ (SecureCall /\ secure'.ran = "full_failed")
          => /\ license_info' = <<>>
             /\ cache_file' = <<>>
             /\ legacy_file' = <<>>
             /\ last'.ret = "false"
             /\ last'.raised = "none"
             /\ last'.requests = 0 ]_vars

\* the first call after an activation found the clock set back: the full
\* check failed and the record just written was erased
C18_Witness ==
    /\ last.op = "secure_is_valid"
    /\ phase = "fresh"
    /\ secure.check_count = 1
    /\ secure.ran = "full_failed"
    /\ secure.reason = "time_rollback"
    /\ license_info = <<>> /\ cache_file = <<>>
    /\ last.ret = "false"

\* a full check is due on the call that starts now: the counter it would
\* reach is a multiple of 10, or the last passed full check is more than 300
\* seconds old
FullCheckDue ==
    \/ (secure.check_count + 1) % full_check_every = 0
    \/ now - secure.last_full_check > full_check_cooldown

\* SecureLicenseClient.is_valid() answers false whatever it meets
SecureAnswersFalse ==
    \A resp \in SecureResponses, env \in Environments :
       secure_is_valid(secure, Self, now, resp, env).out.ret = "false"

\* C19: if a debugger is detected at a call of SecureLicenseClient.is_valid()
\* on which a full check is due, the call erases the cache and is_valid()
\* returns false on the next call, though the record was valid and within
\* grace.
C19_DebuggerErasesCache ==
    [][ (SecureCall /\ FullCheckDue
         /\ (secure'.ran = "blocked" \/ secure'.reason = "debugger_detected"))
          => /\ license_info' = <<>>
             /\ cache_file' = <<>>
             /\ SecureAnswersFalse' ]_vars

Delegated ==
    \E resp \in SecureResponses :
       LET out == is_valid(Self, now, resp)
       IN /\ last'.ret = out.ret
          /\ last'.raised = out.raised
          /\ last'.requests = out.requests
          /\ license_info' = out.self.license_info
          /\ cache_file' = out.self.cache_file

----------------------------------------------------------------------------
(* C21: cheap calls and the outcome of the last full check *)

\* C21: once the most recent full security check has failed, a
\* SecureLicenseClient.is_valid() call that runs no full check itself
\* returns false, whatever was called in between
C21_CheapCallReusesFailedCheck ==
    [][ ( /\ secure # NoWrapper
          /\ secure.verdict = "failed"
          /\ last'.op = "secure_is_valid"
          /\ secure'.ran = "cheap" )
        => last'.ret = "false" ]_vars

\* A cheap call has answered true although the most recent full check failed
C21_Witness ==
    /\ last.op = "secure_is_valid"
    /\ secure.ran = "cheap"
    /\ secure.verdict = "failed"
    /\ last.ret = "true"


----------------------------------------------------------------------------
(* C22: cache-file operations of the caller and of the heartbeat thread *)

\* The caller's thread and the heartbeat threads
Frames == << c.caller >> \o c.threads

InCacheOperation(f) == f.pc \in SaveStatements \cup ClearStatements

\* Nobody has the cache file open for writing
NoWriteInProgress == \A i \in DOMAIN Frames : Frames[i].pc # "save_write"

\* What one _save_cache writes from beginning to end
WholeWrites ==
    { write_cache(FALSE, FALSE, 1, 5, [ valid |-> v, expire_at |-> Absent,
                                        last_verified_at |-> t ]) :
        v \in {"true", "false"}, t \in ThreadTimes }
    \cup { Null }

\* C22: no two threads are inside _save_cache / _clear_cache at once, and
\* the cache file, when nobody is writing it, is absent or is what one single
\* _save_cache wrote from beginning to end
C22_CacheOperationsSerialized ==
    /\ \A i, j \in DOMAIN Frames :
         (InCacheOperation(Frames[i]) /\ InCacheOperation(Frames[j])) => i = j
    /\ NoWriteInProgress => (c.file = <<>> \/ c.file[1] \in WholeWrites)

\* Every call has returned, and the file on disk is the bytes of one write
\* followed by the end of another's
C22_Witness ==
    /\ \A i \in DOMAIN Frames : ~InCacheOperation(Frames[i])
    /\ c.file # <<>>
    /\ c.file[1] \notin WholeWrites
    /\ \E w \in WholeWrites \ { Null } :
         /\ Len(c.file[1]) > Len(w)
         /\ SubSeq(c.file[1], 1, Len(w)) = w


----------------------------------------------------------------------------
(* C23, C24: the heartbeat thread and the stop flag *)

AllDead == \A i \in DOMAIN c.threads : c.threads[i].pc = "dead"

\* C23: once close() or a successful deactivate() has set the stop flag (and
\* no activate/login has started a thread since), the heartbeat thread starts
\* no heartbeat() request any more, and it ends
C23_NoRequestAfterStop ==
    /\ [](\A i \in DOMAIN c.threads : c.threads[i].late = 0)
    /\ (c.stop_heartbeat ~> AllDead)

\* C23, amended: the thread starts at most one request after the flag was
\* set (the one whose test of the flag, line 836, came before), and it ends
C23_OneRequestAfterStopAtMost ==
    /\ [](\A i \in DOMAIN c.threads : c.threads[i].late <= 1)
    /\ (c.stop_heartbeat ~> AllDead)

\* The flag is set, the thread has ended, and it had started one request
\* after the flag was set
C23_Witness ==
    /\ c.stop_heartbeat
    /\ c.threads # <<>>
    /\ AllDead
    /\ \E i \in DOMAIN c.threads : c.threads[i].late = 1


AliveThreads == { i \in DOMAIN c.threads : c.threads[i].pc # "dead" }

\* C24: at most one heartbeat thread of the client is alive, whatever
\* activate, login, deactivate and close calls were made on it
C24_OneHeartbeatThread == Cardinality(AliveThreads) <= 1

\* A second thread was started after the first had ended, and runs alone
C24_Witness ==
    /\ Len(c.threads) > 1
    /\ AliveThreads = { c.heartbeat_thread }
    /\ c.heartbeat_thread = Len(c.threads)


----------------------------------------------------------------------------
(* C25: the expiry timestamp of the record *)

\* C25: whenever the record carries an expiry timestamp earlier than now,
\* is_valid() returns false and asks the server nothing, whatever
\* last_verified_at is
C25_ExpiredIsInvalid ==
    [][ ( /\ last'.op = "is_valid"
          /\ HasRecord
          /\ Record.expire_at # Absent
          /\ ExpiryInstant(Record.expire_at) < now )
        => (last'.ret = "false" /\ last'.requests = 0) ]_vars

\* C25, amended: so it is when the expiry is an ISO string that
\* datetime.fromisoformat reads
C25_ExpiredIsoStringIsInvalid ==
    [][ ( /\ last'.op = "is_valid"
          /\ HasRecord
          /\ IsoString(Record.expire_at)
          /\ Record.expire_at < now )
        => (last'.ret = "false" /\ last'.requests = 0) ]_vars

\* is_valid() has answered false without a request on a record flagged
\* valid whose ISO expiry has passed and whose grace period is over
C25_Witness ==
    /\ last.op = "is_valid"
    /\ last.ret = "false"
    /\ last.requests = 0
    /\ HasRecord
    /\ ValidFlag
    /\ IsoString(Record.expire_at)
    /\ Record.expire_at < now
    /\ OverGrace(Record, now)


----------------------------------------------------------------------------
(* C26: is_valid() without a record, or on a record flagged invalid *)

\* C26: when there is no record or the record's valid flag is false (or
\* missing), is_valid() returns false, asks the server nothing, and leaves
\* the record, the cache file and the heartbeat thread as they were
C26_NoRecordOrInvalidFlag ==
    [][ (last'.op = "is_valid" /\ (~HasRecord \/ ~ValidFlag))
        => ( /\ last'.ret = "false"
             /\ last'.raised = "none"
             /\ last'.requests = 0
             /\ license_info' = license_info
             /\ cache_file' = cache_file
             /\ legacy_file' = legacy_file
             /\ heartbeat_thread' = heartbeat_thread
             /\ stop_heartbeat' = stop_heartbeat ) ]_vars

\* is_valid() has answered false on a record flagged invalid that is in the
\* cache file, while the heartbeat thread is alive
C26_Witness ==
    /\ last.op = "is_valid"
    /\ last.ret = "false"
    /\ last.requests = 0
    /\ HasRecord
    /\ Record.valid = "false"
    /\ cache_file = << Blob(Record) >>
    /\ IsAlive(heartbeat_thread)


----------------------------------------------------------------------------
(* C27: reverification beyond the grace period succeeds *)

\* is_valid() asks the server: the record has passed the tests of the flag
\* and of the expiry, and its grace period is over
Reverifies ==
    /\ HasRecord
    /\ ValidFlag
    /\ ~Expired(Record, now)
    /\ OverGrace(Record, now)

\* The client as the step leaves it
SelfAfter ==
    [ license_info |-> license_info', cache_file |-> cache_file',
      legacy_file |-> legacy_file', stop_heartbeat |-> stop_heartbeat',
      heartbeat_thread |-> heartbeat_thread' ]

\* C27: when is_valid() finds the record beyond grace and its verify() is
\* accepted with valid = true, is_valid() returns true, last_verified_at
\* becomes now, and an is_valid() right after returns true without a request
C27_ReverifiedIsValidAgain ==
    [][ ( /\ last'.op = "is_valid"
          /\ Reverifies
          /\ last'.kind = "ok"
          /\ last'.valid = "true" )
        => ( /\ last'.ret = "true"
             /\ license_info' # <<>>
             /\ license_info'[1].last_verified_at = now
             /\ \A resp \in Responses :
                  /\ is_valid(SelfAfter, now, resp).ret = "true"
                  /\ is_valid(SelfAfter, now, resp).requests = 0 ) ]_vars

\* is_valid() has returned true on an accepted reverification, and the
\* record's last_verified_at is not the time of that call: the grace period
\* is still over
C27_Witness ==
    /\ last.op = "is_valid"
    /\ last.kind = "ok"
    /\ last.valid = "true"
    /\ last.ret = "true"
    /\ HasRecord
    /\ Record.last_verified_at # now
    /\ OverGrace(Record, now)


----------------------------------------------------------------------------
(* C28: where a record comes from *)

\* C28: a record appears only through an activate or login the server has
\* accepted (or from the cache at construction): verify() and heartbeat(),
\* called or run by the heartbeat thread while there is no record, create no
\* record and no cache file, whatever the answer
C28_OnlyActivationCreatesRecord ==
    [][ /\ (license_info = <<>> /\ license_info' # <<>>)
             => (last'.op \in {"activate", "login"} /\ last'.kind = "ok")
        /\ (license_info = <<>> /\ last'.op \in {"verify", "heartbeat", "thread"})
             => ( /\ license_info' = <<>>
                  /\ cache_file' = cache_file
                  /\ legacy_file' = legacy_file ) ]_vars

\* verify() was accepted with valid = true while there was no record: there
\* is still no record and no cache file
C28_Witness ==
    /\ last.op = "verify"
    /\ last.kind = "ok"
    /\ last.valid = "true"
    /\ last.ret = "true"
    /\ license_info = <<>>
    /\ cache_file = <<>>
    /\ legacy_file = <<>>


----------------------------------------------------------------------------
(* C29: what a heartbeat answer does to the record *)

\* C29: after a heartbeat the server accepted with valid = false, the
\* record's valid flag is false and is_valid() returns false
C29_HeartbeatAnswerIsMerged ==
    [][ ( /\ last'.op \in {"heartbeat", "thread"}
          /\ HasRecord
          /\ last'.kind = "ok"
          /\ last'.valid = "false" )
        => ( /\ license_info' # <<>>
             /\ license_info'[1].valid = "false"
             /\ \A resp \in Responses :
                  is_valid(SelfAfter, now, resp).ret = "false" ) ]_vars

\* heartbeat() was accepted with valid = false and has returned false; the
\* record is still flagged valid, verified now, and is_valid() returns true
C29_Witness ==
    /\ last.op = "heartbeat"
    /\ last.kind = "ok"
    /\ last.valid = "false"
    /\ last.ret = "false"
    /\ HasRecord
    /\ Record.valid = "true"
    /\ Record.last_verified_at = now
    /\ \A resp \in Responses :
         /\ is_valid(Self, now, resp).ret = "true"
         /\ is_valid(Self, now, resp).requests = 0


----------------------------------------------------------------------------
(* C30: the legacy plaintext cache at construction *)

\* The record a file holds for a client without encryption
PlainRecord(file) == read_cache(FALSE, FALSE, c.machine_id, c.app_key, file[1])

\* A client with encryption was constructed where a legacy plaintext record
\* <app_key>.json lay
ConstructedOnLegacy ==
    /\ c.step = "constructed"
    /\ c.found_legacy # <<>>
    /\ PlainRecord(c.found_legacy) # <<>>

\* The legacy record is in memory, stored under the encrypted name, and the
\* plaintext file is gone
Migrated ==
    /\ c.license_info = PlainRecord(c.found_legacy)
    /\ c.current # <<>>
    /\ c.current # c.found_legacy
    /\ read_cache(TRUE, c.crypto, c.machine_id, c.app_key, c.current[1])
         = PlainRecord(c.found_legacy)
    /\ c.legacy = <<>>

\* C30: whenever encryption is enabled and a legacy plaintext record exists
\* at construction, afterwards the record in memory is the legacy record, it
\* is stored under the encrypted name, and the legacy file no longer exists
C30_LegacyIsMigrated == ConstructedOnLegacy => Migrated

\* C30, amended: so it is when no file of the encrypted name exists; when one
\* exists, readable or not, it alone is read and the legacy file stays
C30_LegacyIsMigratedIfNoCurrent ==
    ConstructedOnLegacy =>
        IF c.found_current = <<>>
        THEN Migrated
        ELSE /\ c.license_info = read_cache(TRUE, c.crypto, c.machine_id,
                                            c.app_key, c.found_current[1])
             /\ c.current = c.found_current
             /\ c.legacy = c.found_legacy

\* A legacy record has been migrated
C30_Witness ==
    /\ ConstructedOnLegacy
    /\ c.found_current = <<>>
    /\ c.license_info # <<>>
    /\ Migrated

----------------------------------------------------------------------------
(* TimeChecker *)

\* C31: check() answers False exactly when the clock is more than
\* rollback_tolerance seconds behind self._last_check_time, and then leaves
\* self._last_check_time and the file as they were; in every other case it
\* answers True
C31_CheckFlagsRollbackOnly ==
    [][ c'.op = "check" =>
          LET behind == c.last_check_time - c.clock
          IN /\ c'.out = "false" <=> behind > rollback_tolerance
             /\ c'.out = "true" <=> behind <= rollback_tolerance
             /\ c'.out = "false" =>
                  /\ c'.last_check_time = c.last_check_time
                  /\ c'.file = c.file ]_vars

\* C31: check() has answered False with a time in the file, and the clock is
\* exactly one second past the tolerance behind it
C31_Witness ==
    /\ c.op = "check"
    /\ c.out = "false"
    /\ c.last_check_time - c.clock = rollback_tolerance + 1
    /\ c.file = save_current_time(c.last_check_time)

\* C32: over every sequence of check() calls and settings of the clock,
\* self._last_check_time never decreases, and check() answers True only while
\* the clock is at most rollback_tolerance seconds behind the latest time the
\* checker has held, however many steps the clock was set back in
C32_WatermarkNeverDecreases ==
    /\ [][ c'.op = "check" => c'.last_check_time >= c.last_check_time ]_vars
    /\ [](c.op = "check" /\ c.out = "true" =>
            c.peak - c.clock <= rollback_tolerance)

\* C32: check() has answered True with the clock more than rollback_tolerance
\* seconds behind a time the checker held before
C32_Witness ==
    /\ c.op = "check"
    /\ c.out = "true"
    /\ c.last_check_time = c.clock
    /\ c.peak - c.clock > rollback_tolerance

----------------------------------------------------------------------------
(* The order of a full security check *)

\* C33: a full security check looks at integrity before the clock: when the
\* integrity check fails, TimeChecker.check() has not run and
\* self._last_check_time is what it was before the call
C33_IntegrityFailureSkipsClock ==
    [][ /\ SecureCall
        /\ secure'.ran = "full_failed"
        /\ secure'.reason = "integrity_failed"
        => secure'.last_check_time = secure.last_check_time ]_vars

\* C33: is_valid() has run a full check that failed on integrity, with the
\* clock within the tolerance of the TimeChecker's memory
C33_Witness ==
    /\ last.op = "secure_is_valid"
    /\ secure.ran = "full_failed"
    /\ secure.reason = "integrity_failed"
    /\ secure.last_check_time = now
    /\ license_info = <<>>

----------------------------------------------------------------------------
(* The heartbeat after deactivate() and a new activation *)

\* A heartbeat thread is inside heartbeat(), about to send its request
HeartbeatInvoked == \E i \in DOMAIN c.threads : c.threads[i].pc = "request"

\* The caller has returned from an accepted activate() or login() that came
\* after a deactivate() that returned True; the record it stored is there and
\* close() has not been called
Reactivated ==
    /\ c.life = "reactivated"
    /\ c.caller.pc = "idle"
    /\ c.license_info # <<>>

\* C34: after deactivate() and an accepted activate() or login(), whenever the
\* latter is called, heartbeat() is invoked again at some later time, as long
\* as the record is there and the client is not closed
C34_HeartbeatResumes == Reactivated ~> (HeartbeatInvoked \/ ~Reactivated)

\* C34: the caller has reactivated while the heartbeat thread of the first
\* activation was still asleep, and that thread has since ended
C34_Witness ==
    /\ Reactivated
    /\ c.stop_heartbeat
    /\ c.threads # <<>>
    /\ AllDead

----------------------------------------------------------------------------
(* deactivate() and a heartbeat in flight *)

\* deactivate() has returned True and no activate() or login() has stored a
\* record since; the caller is between calls
Deactivated == c.life = "deactivated" /\ c.caller.pc = "idle"

\* No heartbeat() began while the caller was inside deactivate(): the ones
\* that met it were in flight when it began
MetInFlight == \A i \in DOMAIN c.threads : ~c.threads[i].during

\* C35: once deactivate() has returned True, and until an activate() or
\* login(), there is no cache file and no record in memory, whatever a
\* heartbeat() that was in flight when deactivate() began does, and no
\* heartbeat thread has ended with an exception
C35_DeactivatedStaysAbsent ==
    Deactivated /\ MetInFlight =>
      /\ c.file = <<>>
      /\ c.license_info = <<>>
      /\ \A i \in DOMAIN c.threads : c.threads[i].raised = "none"

\* C35: deactivate() has returned True, the heartbeat that was in flight has
\* finished, and the cache file is there again
C35_Witness ==
    /\ Deactivated
    /\ MetInFlight
    /\ c.threads # <<>>
    /\ AllDead
    /\ c.license_info = <<>>
    /\ c.file # <<>>

----------------------------------------------------------------------------
(* The cache file and the record in memory, between calls *)

\* activate, login, verify, heartbeat (the caller's or the thread's) or
\* deactivate has returned, or raised
OperationReturned ==
    last.op \in {"activate", "login", "verify", "heartbeat", "thread", "deactivate"}

\* What _load_cache would make of the files now
Reloaded == load_cache([Self EXCEPT !.license_info = <<>>]).license_info

\* C36: between calls the cache file and the record in memory agree: there is
\* neither, or the file decrypts and parses to exactly the record in memory
C36_CacheAgreesWithMemory ==
    OperationReturned =>
      \/ license_info = <<>> /\ cache_file = <<>>
      \/ /\ license_info # <<>>
         /\ cache_file # <<>>
         /\ cache_file[1].readable
         /\ cache_file[1].record = license_info[1]

\* C36, with a file that does not decrypt or parse counted as no cache:
\* between calls, the record in memory is what _load_cache would read from the
\* files, and it is written in the current cache file whenever there is one
C36_CacheReadsAsMemory ==
    OperationReturned =>
      /\ Reloaded = license_info
      /\ license_info # <<>> =>
           cache_file = << Blob(license_info[1]) >>
      /\ license_info = <<>> =>
           cache_file = <<>> \/ ~cache_file[1].readable

\* C36: a heartbeat has stamped a record that verify() had merged an answer
\* into, and the file holds it
C36_Witness ==
    /\ last.op \in {"heartbeat", "thread"}
    /\ last.kind = "ok"
    /\ license_info # <<>>
    /\ license_info[1].last_verified_at = now
    /\ now > 0
    /\ cache_file = << Blob(license_info[1]) >>

----------------------------------------------------------------------------
(* Calls the server rejects or that do not reach it *)

\* The call that returns in this step was answered with a rejection, or not
\* at all
RequestFailed == last'.requests = 1 /\ last'.kind \in {"reject", "netfail"}

\* The client's fields are as before the call
ClientUnchanged ==
    UNCHANGED <<license_info, cache_file, legacy_file, stop_heartbeat,
                heartbeat_thread>>

\* C37: activate() or login() that the server rejects, or that does not reach
\* it, raises LicenseError and leaves the record in memory and on disk (and
\* with it last_verified_at) and the heartbeat thread and flag as they were
C37_FailedActivationChangesNothing ==
    [][ last'.op \in {"activate", "login"} /\ RequestFailed =>
          /\ last'.raised = "LicenseError"
          /\ last'.ret = "none"
          /\ ClientUnchanged ]_vars

\* C37: activate() or login() has failed on a client that holds a record, has
\* it on disk and has a heartbeat thread asleep
C37_Witness ==
    /\ last.op \in {"activate", "login"}
    /\ last.kind \in {"reject", "netfail"}
    /\ last.raised = "LicenseError"
    /\ license_info # <<>>
    /\ cache_file = << Blob(license_info[1]) >>
    /\ heartbeat_thread = "sleep"
    /\ ~stop_heartbeat

\* C38: deactivate() that the server rejects, or that does not reach it,
\* returns False and leaves the record, the cache file and the stop flag as
\* they were: is_valid() answers after it what it would have answered before
C38_FailedDeactivateChangesNothing ==
    [][ last'.op = "deactivate" /\ RequestFailed =>
          /\ last'.ret = "false"
          /\ last'.raised = "none"
          /\ ClientUnchanged
          /\ \A resp \in Responses :
               is_valid(SelfAfter, now', resp).ret = is_valid(Self, now, resp).ret ]_vars

\* C38: deactivate() has failed on a client whose record is_valid() accepts
\* and whose heartbeat thread is running
C38_Witness ==
    /\ last.op = "deactivate"
    /\ last.kind \in {"reject", "netfail"}
    /\ last.ret = "false"
    /\ license_info # <<>>
    /\ cache_file = << Blob(license_info[1]) >>
    /\ ~stop_heartbeat
    /\ heartbeat_thread = "sleep"
    /\ is_valid(Self, now, [kind |-> "netfail", data |-> EmptyData]).ret = "true"

----------------------------------------------------------------------------
(* A public key makes signatures required *)

\* _verify_response_signature has run on a payload without a signature, on a
\* client that was given a public key
UnsignedWithKey ==
    /\ c.step = "verified"
    /\ c.pem
    /\ c.data.signature = "none"

\* C40: a client that was given a public key, in the constructor or through
\* set_public_key, has require_signature True, and a payload without a
\* signature is rejected with SignatureMissingError
C40_KeyRequiresSignature ==
    /\ c.pem => c.require
    /\ UnsignedWithKey => c.out = "SignatureMissingError"

\* C40, for a client whose require_signature the caller has not assigned
\* itself: a public key given to it makes require_signature True, and a
\* payload without a signature is rejected, with SignatureMissingError when
\* the key is loaded and with LicenseError when it could not be loaded
C40_KeyRequiresSignatureUnlessAssigned ==
    ~c.assigned =>
      /\ c.pem => c.require
      /\ c.key => c.pem
      /\ UnsignedWithKey =>
           c.out = IF c.key THEN "SignatureMissingError" ELSE "LicenseError"

\* C40: an unsigned payload has been rejected as missing its signature by a
\* client that holds a loaded key and was not told to require signatures
\* by the caller's own assignment
C40_Witness ==
    /\ UnsignedWithKey
    /\ c.key
    /\ ~c.assigned
    /\ c.out = "SignatureMissingError"

----------------------------------------------------------------------------
(* What a True of SecureLicenseClient.is_valid() rests on *)

\* SecureLicenseClient.is_valid() has just returned True
SecureAnsweredTrue == last.op = "secure_is_valid" /\ last.ret = "true"

\* C39: is_valid() of the wrapper returns True only if a full security check
\* passed in that call, or passed on this wrapper at a clock reading at most
\* full_check_cooldown seconds before the present one; the first call of a
\* new wrapper that returns True has run a full check
C39_TrueRestsOnFullCheck ==
    SecureAnsweredTrue =>
      /\ \/ secure.ran = "full_passed"
         \/ /\ secure.ran = "cheap"
            /\ secure.passed_at # <<>>
            /\ now - secure.passed_at[1] <= full_check_cooldown
      /\ secure.check_count = 1 =>
           secure.ran = "full_passed" /\ secure.passed_at = << now >>

\* C39: is_valid() has returned True without a full check, exactly
\* full_check_cooldown seconds after the one that passed
C39_Witness ==
    /\ SecureAnsweredTrue
    /\ secure.ran = "cheap"
    /\ secure.passed_at # <<>>
    /\ now - secure.passed_at[1] = full_check_cooldown

====
